---- MODULE Spec2Model ----
(***************************************************************************)
(* Swarm decision engine of shouldIquit (src/main.py): the four specialist *)
(* scorers, the coordinator (_build_swarm_decision), the case memory store *)
(* (swarm_memory.json, _load_swarm_memory / _save_swarm_memory) and the     *)
(* feedback learner (_update_weights_after_feedback).                       *)
(*                                                                         *)
(* Number representation.  Agent weights are floats that the code rounds   *)
(* to 4 decimals: a weight w is the integer w * WScale.  Confidences and   *)
(* similarities are floats with 2 decimals: the integer value * 100.       *)
(* Money is whole currency units.  runway = savings / net_burn is never    *)
(* formed: "runway >= k" is savings >= k * net_burn.                       *)
(* Reason / rationale / action-plan texts and the timestamp of a case are  *)
(* written but never read by the engine and are left out of the records.   *)
(***************************************************************************)
EXTENDS Integers, Sequences, FiniteSets, TLC

VARIABLES
    file,      \* swarm_memory.json: absent, partially written, or a JSON document
    nextUuid,  \* how many uuid4 values have been drawn (uuid4 values are fresh)
    last,      \* the call most recently served one at a time: op, arguments, result
    pc,        \* per concurrent request thread: position in its handler
    req,       \* per concurrent request thread: the call it is serving
    mem,       \* per concurrent request thread: its local `memory` dict
    ret        \* per concurrent request thread: the last result it returned

vars == <<file, nextUuid, last, pc, req, mem, ret>>

----------------------------------------------------------------------------
(* Bounds of the model *)

MaxCases == 2          \* decide is not called once the loaded store holds this many cases
MaxQuit == 2           \* quit-feedback is not called once a scorecard total reaches this
MaxIdCases == 3        \* same as MaxCases, in the specification with caller-chosen ids
MaxLearnCases == 1     \* same as MaxCases, in the learning specification
MaxLearn == 13         \* same as MaxQuit, in the learning specification (12 nudges reach a clamp)
MaxConcCases == 2      \* same as MaxCases, in the concurrent specification
MaxConcQuit == 1       \* same as MaxQuit, in the concurrent specification
MaxUuid == 2           \* decide calls (uuid4 draws) in the concurrent specification
MaxFaultCases == 1     \* same as MaxCases, in the specification with store and disk faults
MaxFaultQuit == 1      \* same as MaxQuit, in the specification with store and disk faults
MaxFaultUuid == 2      \* decide calls (uuid4 draws) in the specification with faults
MaxRefineCases == 2    \* same as MaxCases, in the specification of the LLM entry points
MaxHistory == 5        \* earlier decide calls behind the store of the recall specification

(* Program constants *)

WScale == 10000        \* round(..., 4): weights carry 4 decimals
WMin == 4000           \* max(0.4, ...)
WMax == 25000          \* min(2.5, ...)
NudgePct == 8          \* delta = 0.08 / -0.08
SimThreshold == 35     \* if sim < 0.35: continue
TopN == 4              \* top_n: int = 4
ShiftUp == 4           \* score_shift = 4
MinLabels == 2         \* len(success_labels) >= 2

----------------------------------------------------------------------------
(* Small helpers: Python built-ins *)

Max(a, b) == IF a >= b THEN a ELSE b
Min(a, b) == IF a <= b THEN a ELSE b
Abs(a) == IF a >= 0 THEN a ELSE 0 - a

\* Python round() of the rational n / d (d > 0): nearest integer, ties to even.
Round(n, d) ==
    LET q == n \div d
        r == n - q * d
    IN  IF 2 * r < d THEN q
        ELSE IF 2 * r > d THEN q + 1
        ELSE IF q % 2 = 0 THEN q ELSE q + 1

\* dict helpers: a dict is a function on its key set
EmptyDict == [k \in {} |-> 0]
DictGet(d, k, default) == IF k \in DOMAIN d THEN d[k] ELSE default
DictPut(d, k, v) == [x \in (DOMAIN d) \cup {k} |-> IF x = k THEN v ELSE d[x]]

\* Optional[T]: None is the empty tuple, a value x is <<x>>
None == <<>>
Some(x) == <<x>>

SeqSum(s) ==
    LET RECURSIVE Go(_)
        Go(i) == IF i = 0 THEN 0 ELSE s[i] + Go(i - 1)
    IN  Go(Len(s))

----------------------------------------------------------------------------
(* The store *)

Agents == <<"finance_risk_agent", "career_market_agent",
            "family_stability_agent", "linkedin_positioning_agent">>
AgentSet == {Agents[i] : i \in 1..4}

default_memory ==
    [agent_weights |-> [a \in AgentSet |-> WScale],
     agent_scorecard |-> EmptyDict,
     cases |-> <<>>]

\* JSON documents, as json.dump writes and json.load reads them.  A number is its
\* decimal text: whole part and fraction, the fraction counted in units of
\* 1/scale (float repr keeps every digit of a value rounded to that scale).
\* An object is the function from its keys to their values.
JNumber(n, scale) == [t |-> "number", units |-> n \div scale, frac |-> n % scale]
JString(s) == [t |-> "string", chars |-> s]
JBool(b) == [t |-> IF b THEN "true" ELSE "false"]
JArray(items) == [t |-> "array", items |-> items]

number_value(j, scale) == j.units * scale + j.frac
bool_value(j) == j.t = "true"

\* variant: a weight is written with 3 decimals
dump_weight_3dp(w) == JNumber(Round(w, 10) * 10, WScale)

dump_weight(w) == JNumber(w, WScale)

dump_weights(weights) == [a \in DOMAIN weights |-> dump_weight(weights[a])]

dump_scorecard(scorecard) ==
    [a \in DOMAIN scorecard |->
        [correct |-> JNumber(scorecard[a].correct, 1), total |-> JNumber(scorecard[a].total, 1)]]

dump_assessment(a) ==
    [agent |-> JString(a.agent),
     score_0_to_100 |-> JNumber(a.score_0_to_100, 1),
     confidence_0_to_1 |-> JNumber(a.confidence_0_to_1, 100),
     verdict |-> JString(a.verdict)]

dump_features(f) ==
    [runway_bucket |-> JString(f.runway_bucket),
     dependents_count |-> JNumber(f.dependents_count, 1),
     risk_tolerance |-> JString(f.risk_tolerance),
     skills_count |-> JNumber(f.skills_count, 1)]

\* data.model_dump(): money fields are floats, here whole units
dump_input(d) ==
    LET pb == d.personal_background
        link == d.linkedin_context
        fin == d.financial_situation
        fam == d.family_context
    IN  [personal_background |-> [risk_tolerance |-> JString(pb.risk_tolerance)],
         linkedin_context |->
            [top_skills |-> JArray([i \in 1..link.top_skills_len |-> JString("skill")]),
             endorsements_strength |-> JString(link.endorsements_strength),
             network_reach |-> JString(link.network_reach),
             recent_relevant_posts |-> JNumber(link.recent_relevant_posts, 1)],
         financial_situation |->
            [monthly_expenses_usd |-> JNumber(fin.monthly_expenses_usd, 1),
             liquid_savings_usd |-> JNumber(fin.liquid_savings_usd, 1),
             debt_usd |-> JNumber(fin.debt_usd, 1),
             expected_side_income_usd |-> JNumber(fin.expected_side_income_usd, 1),
             other_investments_usd |-> JNumber(fin.other_investments_usd, 1),
             expected_investment_monthly_income_usd |->
                JNumber(fin.expected_investment_monthly_income_usd, 1),
             health_insurance_if_quit |-> JBool(fin.health_insurance_if_quit)],
         family_context |->
            [dependents_count |-> JNumber(fam.dependents_count, 1),
             partner_income_stable |-> JBool(fam.partner_income_stable),
             family_support_level |-> JString(fam.family_support_level)]]

dump_feedback(fb) ==
    [case_id |-> JString(fb.case_id),
     did_user_quit |-> JBool(fb.did_user_quit),
     was_successful |-> JBool(fb.was_successful)]

\* a case record has its "feedback" key only once feedback was attached
dump_case(c) ==
    IF c.feedback = None
    THEN [case_id |-> JString(c.case_id),
          features |-> dump_features(c.features),
          specialists |-> JArray([i \in 1..Len(c.specialists) |->
                                     dump_assessment(c.specialists[i])]),
          recommendation |-> JString(c.recommendation),
          aggregate_score |-> JNumber(c.aggregate_score, 1),
          aggregate_confidence |-> JNumber(c.aggregate_confidence, 100),
          input |-> dump_input(c.input)]
    ELSE [case_id |-> JString(c.case_id),
          features |-> dump_features(c.features),
          specialists |-> JArray([i \in 1..Len(c.specialists) |->
                                     dump_assessment(c.specialists[i])]),
          recommendation |-> JString(c.recommendation),
          aggregate_score |-> JNumber(c.aggregate_score, 1),
          aggregate_confidence |-> JNumber(c.aggregate_confidence, 100),
          input |-> dump_input(c.input),
          feedback |-> dump_feedback(c.feedback[1])]

\* json.dump(memory, file, indent=2): the document written
json_dump(memory) ==
    [agent_weights |-> dump_weights(memory.agent_weights),
     agent_scorecard |-> dump_scorecard(memory.agent_scorecard),
     cases |-> JArray([i \in 1..Len(memory.cases) |-> dump_case(memory.cases[i])])]

\* json.load, section by section: the Python value of a document
load_weights(j) == [a \in DOMAIN j |-> number_value(j[a], WScale)]

load_scorecard(j) ==
    [a \in DOMAIN j |->
        [correct |-> number_value(j[a].correct, 1), total |-> number_value(j[a].total, 1)]]

load_assessment(j) ==
    [agent |-> j.agent.chars,
     score_0_to_100 |-> number_value(j.score_0_to_100, 1),
     confidence_0_to_1 |-> number_value(j.confidence_0_to_1, 100),
     verdict |-> j.verdict.chars]

load_features(j) ==
    [runway_bucket |-> j.runway_bucket.chars,
     dependents_count |-> number_value(j.dependents_count, 1),
     risk_tolerance |-> j.risk_tolerance.chars,
     skills_count |-> number_value(j.skills_count, 1)]

load_input(j) ==
    LET pb == j.personal_background
        link == j.linkedin_context
        fin == j.financial_situation
        fam == j.family_context
    IN  [personal_background |-> [risk_tolerance |-> pb.risk_tolerance.chars],
         linkedin_context |->
            [top_skills_len |-> Len(link.top_skills.items),
             endorsements_strength |-> link.endorsements_strength.chars,
             network_reach |-> link.network_reach.chars,
             recent_relevant_posts |-> number_value(link.recent_relevant_posts, 1)],
         financial_situation |->
            [monthly_expenses_usd |-> number_value(fin.monthly_expenses_usd, 1),
             liquid_savings_usd |-> number_value(fin.liquid_savings_usd, 1),
             debt_usd |-> number_value(fin.debt_usd, 1),
             expected_side_income_usd |-> number_value(fin.expected_side_income_usd, 1),
             other_investments_usd |-> number_value(fin.other_investments_usd, 1),
             expected_investment_monthly_income_usd |->
                number_value(fin.expected_investment_monthly_income_usd, 1),
             health_insurance_if_quit |-> bool_value(fin.health_insurance_if_quit)],
         family_context |->
            [dependents_count |-> number_value(fam.dependents_count, 1),
             partner_income_stable |-> bool_value(fam.partner_income_stable),
             family_support_level |-> fam.family_support_level.chars]]

load_feedback(j) ==
    [case_id |-> j.case_id.chars,
     did_user_quit |-> bool_value(j.did_user_quit),
     was_successful |-> bool_value(j.was_successful)]

load_case(j) ==
    [case_id |-> j.case_id.chars,
     features |-> load_features(j.features),
     specialists |-> [i \in 1..Len(j.specialists.items) |->
                         load_assessment(j.specialists.items[i])],
     recommendation |-> j.recommendation.chars,
     aggregate_score |-> number_value(j.aggregate_score, 1),
     aggregate_confidence |-> number_value(j.aggregate_confidence, 100),
     input |-> load_input(j.input),
     feedback |-> IF "feedback" \in DOMAIN j THEN Some(load_feedback(j.feedback)) ELSE None]

\* json.load of a document that is an object with some of the three sections:
\* the dict it returns
json_load(doc) ==
    [k \in DOMAIN doc |->
        IF k = "agent_weights" THEN load_weights(doc[k])
        ELSE IF k = "agent_scorecard" THEN load_scorecard(doc[k])
        ELSE [i \in 1..Len(doc[k].items) |-> load_case(doc[k].items[i])]]

\* States of the file SWARM_MEMORY_PATH.  A file holding a JSON object is
\* identified by the dict json.load reads from it.
Absent == [kind |-> "absent"]            \* does not exist
Partial == [kind |-> "partial"]          \* opened "w" (truncated), json.dump not finished:
                                         \*   empty or a proper prefix, not valid JSON
Unreadable == [kind |-> "unreadable"]    \* exists, open("r") fails with OSError
Undecodable == [kind |-> "undecodable"]  \* exists, its bytes are not UTF-8 text
JsonNumber == [kind |-> "json_number"]   \* valid JSON: a number
JsonList(n) == [kind |-> "json_list", len |-> n]    \* valid JSON: a list of n numbers
JsonFile(data) == [kind |-> "json", data |-> data]  \* valid JSON: an object

\* The exception _load_swarm_memory lets through, "none" if it returns.
\* JSONDecodeError and OSError are caught (line 171).  Reading bytes that are not
\* UTF-8 raises UnicodeDecodeError, a ValueError that is neither.  default.update(data)
\* takes a dict or an iterable of key/value pairs: a number or a list of numbers
\* raises TypeError; an empty list updates nothing.
load_error(f) ==
    IF f.kind = "undecodable" THEN "UnicodeDecodeError"
    ELSE IF f.kind = "json_number" THEN "TypeError"
    ELSE IF f.kind = "json_list" /\ f.len > 0 THEN "TypeError"
    ELSE "none"

\* default.update(data): a key of data replaces the default's, other keys stay
dict_update(default, data) ==
    [k \in (DOMAIN default) \cup (DOMAIN data) |->
        IF k \in DOMAIN data THEN data[k] ELSE default[k]]

\* variant: the stored weight table is not taken over from the document
load_swarm_memory_default_weights(f) ==
    IF f.kind = "json"
    THEN [dict_update(default_memory, f.data) EXCEPT
             !.agent_weights = default_memory.agent_weights]
    ELSE default_memory

\* _load_swarm_memory, where it returns: a missing file, a file that cannot be
\* opened, a file that is not valid JSON and an empty list give the default
\* memory; an object updates the default memory.
load_swarm_memory(f) ==
    IF f.kind = "json" THEN dict_update(default_memory, f.data) ELSE default_memory

\* variant: the default memory is dumped instead of the memory passed in
save_swarm_memory_default(memory) == JsonFile(json_load(json_dump(default_memory)))

\* _save_swarm_memory, the content once json.dump has completed
save_swarm_memory(memory) == JsonFile(json_load(json_dump(memory)))

----------------------------------------------------------------------------
(* Input record (DueDiligenceInput), the fields the engine reads.           *)
(* top_skills is a list of strings of which only the length is read.        *)

\* variant: the burn has no floor
net_burn_unfloored(fin) ==
    fin.monthly_expenses_usd
      - (fin.expected_side_income_usd + fin.expected_investment_monthly_income_usd)

\* max(monthly_expenses - offsets, 1.0)
net_burn(fin) ==
    Max(fin.monthly_expenses_usd
          - (fin.expected_side_income_usd + fin.expected_investment_monthly_income_usd), 1)

\* _runway_months(fin) >= k, for a whole number k
runway_at_least(fin, k) == fin.liquid_savings_usd >= k * net_burn(fin)

\* variant: the score is not clamped
clamp_score_none(score) == score

\* score = max(0, min(100, score))
clamp_score(score) == Max(0, Min(100, score))

\* variant: one pair of cuts, 72 and 50, for every specialist
Verdict_shared_cuts(score, go_cut, wait_cut) ==
    IF score >= 72 THEN "go" ELSE IF score >= 50 THEN "wait" ELSE "hold"

Verdict(score, go_cut, wait_cut) ==
    IF score >= go_cut THEN "go" ELSE IF score >= wait_cut THEN "wait" ELSE "hold"

Assessment(agent, score, confidence, verdict) ==
    [agent |-> agent, score_0_to_100 |-> score,
     confidence_0_to_1 |-> confidence, verdict |-> verdict]

specialist_finance(data) ==
    LET fin == data.financial_situation
        s1 == 35 + (IF runway_at_least(fin, 12) THEN 35
                    ELSE IF runway_at_least(fin, 6) THEN 20
                    ELSE IF runway_at_least(fin, 4) THEN 10
                    ELSE 0 - 15)
        s2 == s1 - (IF fin.debt_usd > fin.monthly_expenses_usd * 12 THEN 10 ELSE 0)
        s3 == s2 + (IF fin.other_investments_usd >= fin.monthly_expenses_usd * 8 THEN 7 ELSE 0)
        s4 == s3 - (IF ~fin.health_insurance_if_quit THEN 12 ELSE 0)
        score == clamp_score(s4)
    IN  Assessment("finance_risk_agent", score, 82, Verdict(score, 72, 50))

specialist_market(data) ==
    LET link == data.linkedin_context
        s1 == 30 + Min(link.top_skills_len, 8) * 4
        s2 == s1 + (IF link.network_reach = "large" THEN 20
                    ELSE IF link.network_reach = "medium" THEN 10
                    ELSE 0 - 5)
        s3 == s2 + (IF link.endorsements_strength = "strong" THEN 12
                    ELSE IF link.endorsements_strength = "weak" THEN 0 - 8
                    ELSE 0)
        s4 == s3 + (IF link.recent_relevant_posts >= 6 THEN 8
                    ELSE IF link.recent_relevant_posts = 0 THEN 0 - 7
                    ELSE 0)
        score == clamp_score(s4)
    IN  Assessment("career_market_agent", score, 74, Verdict(score, 70, 48))

specialist_family(data) ==
    LET family == data.family_context
        fin == data.financial_situation
        s1 == 55 + (IF family.dependents_count >= 2 THEN 0 - 15
                    ELSE IF family.dependents_count = 1 THEN 0 - 8
                    ELSE 5)
        s2 == s1 + (IF family.partner_income_stable THEN 12 ELSE 0 - 10)
        s3 == s2 + (IF family.family_support_level = "high" THEN 8
                    ELSE IF family.family_support_level = "low" THEN 0 - 8
                    ELSE 0)
        s4 == s3 - (IF ~runway_at_least(fin, 6) /\ family.dependents_count > 0 THEN 12 ELSE 0)
        score == clamp_score(s4)
    IN  Assessment("family_stability_agent", score, 79, Verdict(score, 72, 52))

specialist_linkedin(data) ==
    LET link == data.linkedin_context
        s1 == 25 + Min(link.top_skills_len, 10) * 5
        s2 == s1 + (IF link.recent_relevant_posts >= 8 THEN 15
                    ELSE IF link.recent_relevant_posts < 2 THEN 0 - 8
                    ELSE 0)
        s3 == s2 + (IF link.endorsements_strength = "strong" THEN 10
                    ELSE IF link.endorsements_strength = "weak" THEN 0 - 10
                    ELSE 0)
        s4 == s3 + (IF link.network_reach = "large" THEN 10
                    ELSE IF link.network_reach = "small" THEN 0 - 6
                    ELSE 0)
        score == clamp_score(s4)
    IN  Assessment("linkedin_positioning_agent", score, 70, Verdict(score, 68, 45))

\* specialists = [finance, market, family, linkedin], in this order
run_specialists(data) ==
    <<specialist_finance(data), specialist_market(data),
      specialist_family(data), specialist_linkedin(data)>>

case_features(data) ==
    LET fin == data.financial_situation
    IN  [runway_bucket |-> IF runway_at_least(fin, 8) THEN "high"
                           ELSE IF runway_at_least(fin, 5) THEN "medium" ELSE "low",
         dependents_count |-> data.family_context.dependents_count,
         risk_tolerance |-> data.personal_background.risk_tolerance,
         skills_count |-> data.linkedin_context.top_skills_len]

\* variant: the dependents term falls by 0.10 per dependent of difference
feature_similarity_dep10(left, right) ==
    LET a == IF left.runway_bucket = right.runway_bucket THEN 35 ELSE 0
        b == IF left.risk_tolerance = right.risk_tolerance THEN 20 ELSE 0
        diff_dep == Abs(left.dependents_count - right.dependents_count)
        diff_skills == Abs(left.skills_count - right.skills_count)
        score == a + b + Max(0, 25 - diff_dep * 10) + Max(0, 20 - diff_skills * 4)
    IN  Max(0, Min(100, score))

\* _feature_similarity, times 100 (the float sum differs from the decimal sum by
\* less than 1e-15 and round(sim, 2) gives the decimal sum)
feature_similarity(left, right) ==
    LET a == IF left.runway_bucket = right.runway_bucket THEN 35 ELSE 0
        b == IF left.risk_tolerance = right.risk_tolerance THEN 20 ELSE 0
        diff_dep == Abs(left.dependents_count - right.dependents_count)
        diff_skills == Abs(left.skills_count - right.skills_count)
        score == a + b + Max(0, 25 - diff_dep * 8) + Max(0, 20 - diff_skills * 4)
    IN  Max(0, Min(100, score))

\* variant: the label of a case is taken only if its user quit
SimilarCase_quit_only(case, sim) ==
    [case_id |-> case.case_id,
     similarity_0_to_1 |-> sim,
     recommendation |-> case.recommendation,
     was_successful |-> IF case.feedback = None THEN None
                        ELSE IF case.feedback[1].did_user_quit
                             THEN Some(case.feedback[1].was_successful)
                             ELSE None]

\* SimilarCase(...): was_successful = case.get("feedback", {}).get("was_successful")
SimilarCase(case, sim) ==
    [case_id |-> case.case_id,
     similarity_0_to_1 |-> sim,
     recommendation |-> case.recommendation,
     was_successful |-> IF case.feedback = None THEN None
                        ELSE Some(case.feedback[1].was_successful)]

\* the loop of _retrieve_similar_cases: cases at or above the threshold, in store order
scored_cases(current, cases) ==
    LET RECURSIVE Go(_)
        Go(i) ==
            IF i = 0 THEN <<>>
            ELSE LET sim == feature_similarity(current, cases[i].features)
                 IN  IF sim < SimThreshold THEN Go(i - 1)
                     ELSE Append(Go(i - 1), SimilarCase(cases[i], sim))
    IN  Go(Len(cases))

\* variant: the sort is not stable, a later equal key goes first
sort_by_similarity_unstable(scored) ==
    LET RECURSIVE Ins(_, _)
        Ins(sorted, x) ==
            IF sorted = <<>> THEN <<x>>
            ELSE IF Head(sorted).similarity_0_to_1 > x.similarity_0_to_1
                 THEN <<Head(sorted)>> \o Ins(Tail(sorted), x)
                 ELSE <<x>> \o sorted
        RECURSIVE Go(_)
        Go(i) == IF i = 0 THEN <<>> ELSE Ins(Go(i - 1), scored[i])
    IN  Go(Len(scored))

\* list.sort(key=similarity, reverse=True): stable, equal keys keep their order
sort_by_similarity(scored) ==
    LET RECURSIVE Ins(_, _)
        Ins(sorted, x) ==
            IF sorted = <<>> THEN <<x>>
            ELSE IF Head(sorted).similarity_0_to_1 >= x.similarity_0_to_1
                 THEN <<Head(sorted)>> \o Ins(Tail(sorted), x)
                 ELSE <<x>> \o sorted
        RECURSIVE Go(_)
        Go(i) == IF i = 0 THEN <<>> ELSE Ins(Go(i - 1), scored[i])
    IN  Go(Len(scored))

retrieve_similar_cases(data, memory) ==
    LET sorted == sort_by_similarity(scored_cases(case_features(data), memory.cases))
    IN  SubSeq(sorted, 1, Min(TopN, Len(sorted)))

\* variant: the middle band starts at 60
decision_from_score_cut60(score) ==
    IF score >= 75
    THEN [recommendation |-> "Proceed with a near-term quit once checklist gates are met.",
          window |-> "1 to 3 months"]
    ELSE IF score >= 60
    THEN [recommendation |-> "Delay quitting and de-risk execution first.",
          window |-> "3 to 6 months"]
    ELSE [recommendation |-> "Do not quit yet; build financial and demand stability.",
          window |-> "6 to 12+ months"]

decision_from_score(score) ==
    IF score >= 75
    THEN [recommendation |-> "Proceed with a near-term quit once checklist gates are met.",
          window |-> "1 to 3 months"]
    ELSE IF score >= 58
    THEN [recommendation |-> "Delay quitting and de-risk execution first.",
          window |-> "3 to 6 months"]
    ELSE [recommendation |-> "Do not quit yet; build financial and demand stability.",
          window |-> "6 to 12+ months"]

----------------------------------------------------------------------------
(* Swarm coordinator *)

\* uuid4 values are modelled as fresh: the n-th draw is Uuid(n)
Uuid(n) == <<"uuid4", n>>

weight_of(weights, spec) == DictGet(weights, spec.agent, WScale)

\* variant: the weights are shown with two decimals
round3_2dp(w) == IF w % 100 = 50 THEN {w - 50, w + 50} ELSE {Round(w, 100) * 100}

\* round(v, 3) of a weight v of four decimals: the values it may give.  When v
\* ends in 5 the double nearest to v lies a little above or a little below the
\* midpoint of the two neighbours, and round() follows the double.
round3(w) == IF w % 10 = 5 THEN {w - 5, w + 5} ELSE {Round(w, 10) * 10}

\* {k: round(v, 3) for k, v in weights.items()}: the tables it may give
display_weights(weights) ==
    {shown \in [DOMAIN weights -> UNION {round3(weights[a]) : a \in DOMAIN weights}] :
        \A a \in DOMAIN weights : shown[a] \in round3(weights[a])}

\* variant: one label among the similar cases is enough for a shift
score_shift_one_label(similar_cases) ==
    LET labels == SelectSeq(similar_cases, LAMBDA c : c.was_successful # None)
        good == SelectSeq(labels, LAMBDA c : c.was_successful[1])
    IN  IF Len(labels) >= 1
        THEN IF 10 * Len(good) >= 7 * Len(labels) THEN ShiftUp
             ELSE IF 10 * Len(good) <= 4 * Len(labels) THEN 0 - ShiftUp
             ELSE 0
        ELSE 0

\* score_shift from the labels of the similar cases
score_shift(similar_cases) ==
    LET labels == SelectSeq(similar_cases, LAMBDA c : c.was_successful # None)
        good == SelectSeq(labels, LAMBDA c : c.was_successful[1])
    IN  IF Len(labels) >= MinLabels
        THEN IF 10 * Len(good) >= 7 * Len(labels) THEN ShiftUp
             ELSE IF 10 * Len(good) <= 4 * Len(labels) THEN 0 - ShiftUp
             ELSE 0
        ELSE 0

\* variant: the weighted sum is divided by the number of specialists
aggregate_score_by_count(specialists, weights, shift) ==
    LET count == Len(specialists) * WScale
        num == SeqSum([i \in 1..Len(specialists) |->
                          specialists[i].score_0_to_100 * weight_of(weights, specialists[i])])
    IN  Max(0, Min(100, Round(num + shift * count, count)))

\* aggregate_score = int(max(0, min(100, round(weighted_score + score_shift))))
aggregate_score(specialists, weights, shift) ==
    LET total == SeqSum([i \in 1..Len(specialists) |-> weight_of(weights, specialists[i])])
        num == SeqSum([i \in 1..Len(specialists) |->
                          specialists[i].score_0_to_100 * weight_of(weights, specialists[i])])
    IN  IF total = 0 THEN Max(0, Min(100, Round(num + shift * WScale, WScale)))
        ELSE Max(0, Min(100, Round(num + shift * total, total)))

\* aggregate_conf = round(max(0.0, min(1.0, weighted_conf)), 2), times 100
aggregate_conf(specialists, weights) ==
    LET total == SeqSum([i \in 1..Len(specialists) |-> weight_of(weights, specialists[i])])
        num == SeqSum([i \in 1..Len(specialists) |->
                          specialists[i].confidence_0_to_1 * weight_of(weights, specialists[i])])
        den == IF total = 0 THEN WScale ELSE total
    IN  IF num <= 0 THEN 0
        ELSE IF num >= 100 * den THEN 100
        ELSE Round(num, den)

\* case_id_value = case_id or str(uuid.uuid4())
case_id_value(case_id, uuid) == IF case_id = None THEN uuid ELSE case_id[1]

\* variant: the record is inserted at the front
append_case_front(memory, case_record) == [memory EXCEPT !.cases = <<case_record>> \o @]

\* variant: the record is not appended
append_case_dropped(memory, case_record) == memory

\* memory.setdefault("cases", []).append(case_record)
append_case(memory, case_record) == [memory EXCEPT !.cases = Append(@, case_record)]

\* variant: each specialist's score is scaled by the weight stored for it
specialists_weighted(memory, data) ==
    LET plain == run_specialists(data)
    IN  [i \in 1..Len(plain) |->
            [plain[i] EXCEPT !.score_0_to_100 =
                clamp_score((@ * weight_of(memory.agent_weights, plain[i])) \div WScale)]]

\* specialists = [...], built where memory and weights are in scope: the four
\* scorers are passed data only
specialists_of(memory, data) == run_specialists(data)

\* variant: the similar cases returned are retrieved after the new case is appended
build_swarm_decision_retrieve_last(memory, data, case_id, uuid) ==
    LET weights == memory.agent_weights
        specialists == specialists_of(memory, data)
        agg == aggregate_score(specialists, weights,
                               score_shift(retrieve_similar_cases(data, memory)))
        conf == aggregate_conf(specialists, weights)
        decision == decision_from_score(agg)
        id == case_id_value(case_id, uuid)
        case_record ==
            [case_id |-> id,
             features |-> case_features(data),
             specialists |-> specialists,
             recommendation |-> decision.recommendation,
             aggregate_score |-> agg,
             aggregate_confidence |-> conf,
             input |-> data,
             feedback |-> None]
    IN  [memory |-> append_case(memory, case_record),
         result |->
            [case_id |-> id,
             aggregate_score_0_to_100 |-> agg,
             aggregate_confidence_0_to_1 |-> conf,
             recommendation |-> decision.recommendation,
             recommended_quit_window |-> decision.window,
             specialists |-> specialists,
             used_agent_weights |-> weights,
             similar_cases |-> retrieve_similar_cases(data, append_case(memory, case_record))]]

\* _build_swarm_decision on the loaded memory: the memory with the new case record
\* appended, and the SwarmDecision returned.  case_id is the optional argument,
\* uuid the value uuid4() gives if it is drawn.  used_agent_weights is the table
\* before its display rounding round(v, 3), which SwarmDecision applies.
build_swarm_decision(memory, data, case_id, uuid) ==
    LET weights == memory.agent_weights
        specialists == specialists_of(memory, data)
        similar_cases == retrieve_similar_cases(data, memory)
        agg == aggregate_score(specialists, weights, score_shift(similar_cases))
        conf == aggregate_conf(specialists, weights)
        decision == decision_from_score(agg)
        id == case_id_value(case_id, uuid)
        case_record ==
            [case_id |-> id,
             features |-> case_features(data),
             specialists |-> specialists,
             recommendation |-> decision.recommendation,
             aggregate_score |-> agg,
             aggregate_confidence |-> conf,
             input |-> data,
             feedback |-> None]
    IN  [memory |-> append_case(memory, case_record),
         result |->
            [case_id |-> id,
             aggregate_score_0_to_100 |-> agg,
             aggregate_confidence_0_to_1 |-> conf,
             recommendation |-> decision.recommendation,
             recommended_quit_window |-> decision.window,
             specialists |-> specialists,
             used_agent_weights |-> weights,
             similar_cases |-> similar_cases]]

\* return SwarmDecision(..., used_agent_weights={k: round(v, 3) ...}, ...): the
\* decision of build_swarm_decision with the weights as they are shown
SwarmDecision(result, shown) == [result EXCEPT !.used_agent_weights = shown]

----------------------------------------------------------------------------
(* Feedback learner *)

\* variant: the id is not compared, the first case is taken
find_case_any(cases, case_id) == IF Len(cases) = 0 THEN 0 ELSE 1

\* index of the first case with this id, 0 if there is none
\* (next((case for case in cases if case.get("case_id") == feedback.case_id), None))
find_case(cases, case_id) ==
    LET hits == {i \in 1..Len(cases) : cases[i].case_id = case_id}
    IN  IF hits = {} THEN 0 ELSE CHOOSE i \in hits : \A j \in hits : i <= j

\* variant: a "wait" verdict counts as a prediction to go
is_correct_wait_as_go(feedback, spec) ==
    LET predicted_go == spec.verdict \in {"go", "wait"}
    IN  (feedback.was_successful /\ predicted_go) \/ (~feedback.was_successful /\ ~predicted_go)

\* correct = (was_successful and predicted_go) or (not was_successful and not predicted_go)
is_correct(feedback, spec) ==
    LET predicted_go == spec.verdict = "go"
    IN  (feedback.was_successful /\ predicted_go) \/ (~feedback.was_successful /\ ~predicted_go)

\* variant: the nudged weight is not clamped
nudge_weight_unclamped(old_weight, correct) ==
    Round(old_weight * (IF correct THEN 100 + NudgePct ELSE 100 - NudgePct), 100)

\* round(max(0.4, min(2.5, old_weight * (1.0 + delta))), 4)
nudge_weight(old_weight, correct) ==
    LET num == old_weight * (IF correct THEN 100 + NudgePct ELSE 100 - NudgePct)
    IN  IF num <= WMin * 100 THEN WMin
        ELSE IF num >= WMax * 100 THEN WMax
        ELSE Round(num, 100)

\* variant: the correct count is incremented on every pass
apply_spec_always_correct(memory, feedback, spec) ==
    LET correct == is_correct(feedback, spec)
        old_weight == DictGet(memory.agent_weights, spec.agent, WScale)
        current == DictGet(memory.agent_scorecard, spec.agent, [correct |-> 0, total |-> 0])
    IN  [memory EXCEPT
            !.agent_weights = DictPut(@, spec.agent, nudge_weight(old_weight, correct)),
            !.agent_scorecard = DictPut(@, spec.agent,
                [correct |-> current.correct + 1, total |-> current.total + 1])]

\* variant: total counts the misses only
apply_spec_total_on_miss(memory, feedback, spec) ==
    LET correct == is_correct(feedback, spec)
        old_weight == DictGet(memory.agent_weights, spec.agent, WScale)
        current == DictGet(memory.agent_scorecard, spec.agent, [correct |-> 0, total |-> 0])
    IN  [memory EXCEPT
            !.agent_weights = DictPut(@, spec.agent, nudge_weight(old_weight, correct)),
            !.agent_scorecard = DictPut(@, spec.agent,
                [correct |-> current.correct + (IF correct THEN 1 ELSE 0),
                 total |-> current.total + (IF correct THEN 0 ELSE 1)])]

\* one pass of the loop over target_case["specialists"]
apply_spec(memory, feedback, spec) ==
    LET correct == is_correct(feedback, spec)
        old_weight == DictGet(memory.agent_weights, spec.agent, WScale)
        current == DictGet(memory.agent_scorecard, spec.agent, [correct |-> 0, total |-> 0])
    IN  [memory EXCEPT
            !.agent_weights = DictPut(@, spec.agent, nudge_weight(old_weight, correct)),
            !.agent_scorecard = DictPut(@, spec.agent,
                [correct |-> current.correct + (IF correct THEN 1 ELSE 0),
                 total |-> current.total + 1])]

\* target_case["feedback"] = feedback.model_dump(), on the i-th case
attach_feedback(memory, i, feedback) ==
    [memory EXCEPT !.cases[i].feedback = Some(feedback)]

\* variant: the loop runs whether or not the user quit
learn_from_feedback_always(memory, feedback, specs) ==
    LET RECURSIVE Go(_)
        Go(k) == IF k = 0 THEN memory ELSE apply_spec(Go(k - 1), feedback, specs[k])
    IN  Go(Len(specs))

\* if feedback.did_user_quit: for spec in target_case.get("specialists", []): ...
learn_from_feedback(memory, feedback, specs) ==
    LET RECURSIVE Go(_)
        Go(k) == IF k = 0 THEN memory ELSE apply_spec(Go(k - 1), feedback, specs[k])
    IN  IF feedback.did_user_quit THEN Go(Len(specs)) ELSE memory

\* _update_weights_after_feedback on the loaded memory: whether the case was found,
\* the memory after the mutation, and the FeedbackResult returned
\* (updated_agent_weights before its display rounding round(v, 3), which
\* FeedbackResult applies).
update_weights_after_feedback(memory, feedback) ==
    LET i == find_case(memory.cases, feedback.case_id)
    IN  IF i = 0
        THEN [found |-> FALSE, memory |-> memory,
              result |-> [case_id |-> feedback.case_id, status |-> "error",
                          updated_agent_weights |-> EmptyDict]]
        ELSE LET updated == learn_from_feedback(attach_feedback(memory, i, feedback),
                                                feedback, memory.cases[i].specialists)
             IN  [found |-> TRUE, memory |-> updated,
                  result |-> [case_id |-> feedback.case_id, status |-> "ok",
                              updated_agent_weights |-> updated.agent_weights]]

\* return FeedbackResult(..., updated_agent_weights={k: round(v, 3) ...}): the
\* result of update_weights_after_feedback with the weights as they are shown
FeedbackResult(result, shown) == [result EXCEPT !.updated_agent_weights = shown]

----------------------------------------------------------------------------
(* Arguments the callers draw from *)

MakeInput(risk, skills, endorse, reach, posts, expenses, savings, debt, side, investments, inv_income, insured, dependents, partner, support) ==
    [personal_background |-> [risk_tolerance |-> risk],
     linkedin_context |-> [top_skills_len |-> skills, endorsements_strength |-> endorse,
                           network_reach |-> reach, recent_relevant_posts |-> posts],
     financial_situation |-> [monthly_expenses_usd |-> expenses, liquid_savings_usd |-> savings,
                              debt_usd |-> debt, expected_side_income_usd |-> side,
                              other_investments_usd |-> investments,
                              expected_investment_monthly_income_usd |-> inv_income,
                              health_insurance_if_quit |-> insured],
     family_context |-> [dependents_count |-> dependents, partner_income_stable |-> partner,
                         family_support_level |-> support]]

\* every specialist says "go"; market and LinkedIn raw scores exceed 100
InStrong == MakeInput("high", 10, "strong", "large", 8,
                      5000, 60000, 0, 0, 40000, 0, TRUE, 0, TRUE, "high")
\* every specialist says "hold"; the finance raw score is below 0
InWeak == MakeInput("low", 0, "weak", "small", 0,
                    5000, 0, 70000, 0, 0, 0, FALSE, 2, FALSE, "low")
\* finance "go", market and family "wait", LinkedIn "hold"
InMixed == MakeInput("medium", 3, "moderate", "medium", 2,
                     5000, 60000, 0, 1000, 40000, 0, TRUE, 1, TRUE, "medium")

Inputs == {InStrong, InWeak}
LearnInputs == {InMixed}
IdInputs == {InStrong, InWeak, InMixed}
ConcInputs == {InMixed}

CallerIds == {<<"caller", 1>>}              \* case ids a caller may pass to decide
UnknownId == <<"caller", 0>>                \* an id no decide call ever used
CaseIdArgs == {None} \cup {Some(c) : c \in CallerIds}

StoredIds(f) == LET cases == load_swarm_memory(f).cases
                IN  {cases[i].case_id : i \in 1..Len(cases)}

MakeFeedback(case_id, quit, success) ==
    [case_id |-> case_id, did_user_quit |-> quit, was_successful |-> success]

\* feedback inputs: the id of any decision returned so far, or an unknown one
FeedbackIds == {UnknownId} \cup {Uuid(n) : n \in 1..nextUuid}
FeedbackInputs ==
    {MakeFeedback(c, q, s) : c \in FeedbackIds, q \in BOOLEAN, s \in BOOLEAN}

\* the largest scorecard total of a memory
MaxTotal(memory) ==
    LET sc == memory.agent_scorecard
    IN  IF DOMAIN sc = {} THEN 0
        ELSE CHOOSE t \in {sc[a].total : a \in DOMAIN sc} :
                 \A a \in DOMAIN sc : sc[a].total <= t

----------------------------------------------------------------------------
(* Calls served one at a time: each action is one whole handler,            *)
(* load - compute - save - return.                                          *)

Procs == {"t1", "t2"}
NoCall == [op |-> "none"]
IdleThreads ==
    /\ pc = [p \in Procs |-> "idle"]
    /\ req = [p \in Procs |-> NoCall]
    /\ mem = [p \in Procs |-> default_memory]
    /\ ret = [p \in Procs |-> NoCall]

Init ==
    /\ file = Absent
    /\ nextUuid = 0
    /\ last = NoCall
    /\ IdleThreads

\* What the environment does to a save: "ok"; "open_fails", open("w") raises OSError
\* and the file stays as it is; "write_fails", the file is opened (truncated) and
\* json.dump raises OSError part-way.
Disks == {"ok", "open_fails", "write_fails"}

\* the file after _save_swarm_memory(memory) ran or failed
file_after_save(f, memory, disk) ==
    IF disk = "ok" THEN save_swarm_memory(memory)
    ELSE IF disk = "open_fails" THEN f
    ELSE Partial

\* variant: an OSError of the save is caught and dropped
save_outcome_swallowed(disk) == "none"

\* the exception a handler raises out of its save, "none" if the save completed:
\* no handler and no caller of _save_swarm_memory catches OSError
save_outcome(disk) == IF disk = "ok" THEN "none" ELSE "OSError"

\* decide(input_record, optional case_id), whatever the store file holds and
\* whatever the disk does.  A call that raises returns no result.
DecideDisk(data, case_id, disk) ==
    LET memory == load_swarm_memory(file)
        r == build_swarm_decision(memory, data, case_id, Uuid(nextUuid + 1))
        call == [op |-> "decide", data |-> data, case_id |-> case_id, disk |-> disk]
    IN  IF load_error(file) # "none"
        THEN /\ last' = [raised |-> load_error(file)] @@ call
             /\ UNCHANGED <<file, nextUuid, pc, req, mem, ret>>
        ELSE /\ file' = file_after_save(file, r.memory, disk)
             /\ nextUuid' = IF case_id = None THEN nextUuid + 1 ELSE nextUuid
             /\ \E shown \in display_weights(r.result.used_agent_weights) :
                    last' = IF save_outcome(disk) = "none"
                            THEN [raised |-> "none",
                                  result |-> SwarmDecision(r.result, shown)] @@ call
                            ELSE [raised |-> save_outcome(disk)] @@ call
             /\ UNCHANGED <<pc, req, mem, ret>>

\* decide on a working disk
Decide(data, case_id) == DecideDisk(data, case_id, "ok")

\* submit_feedback(feedback_record), likewise; an unknown case returns before the save
SubmitFeedbackDisk(feedback, disk) ==
    LET memory == load_swarm_memory(file)
        r == update_weights_after_feedback(memory, feedback)
        call == [op |-> "submit_feedback", feedback |-> feedback, disk |-> disk]
    IN  IF load_error(file) # "none"
        THEN /\ last' = [raised |-> load_error(file)] @@ call
             /\ UNCHANGED <<file, nextUuid, pc, req, mem, ret>>
        ELSE /\ file' = IF r.found THEN file_after_save(file, r.memory, disk) ELSE file
             /\ \E shown \in display_weights(r.result.updated_agent_weights) :
                    last' = IF r.found /\ save_outcome(disk) # "none"
                            THEN [raised |-> save_outcome(disk)] @@ call
                            ELSE [raised |-> "none",
                                  result |-> FeedbackResult(r.result, shown)] @@ call
             /\ UNCHANGED <<nextUuid, pc, req, mem, ret>>

\* submit_feedback on a working disk
SubmitFeedback(feedback) == SubmitFeedbackDisk(feedback, "ok")

CanDecide(f, max_cases) == Len(load_swarm_memory(f).cases) < max_cases
CanFeedback(f, feedback, max_quit) ==
    feedback.did_user_quit => MaxTotal(load_swarm_memory(f)) < max_quit

\* The program as its callers run it: no caller of _build_swarm_decision passes a
\* case_id (main.py 721, 807, 813, 829; frontend.py 732, 800).
Next ==
    \/ \E data \in Inputs :
          CanDecide(file, MaxCases) /\ Decide(data, None)
    \/ \E feedback \in FeedbackInputs :
          CanFeedback(file, feedback, MaxQuit) /\ SubmitFeedback(feedback)

Spec == Init /\ [][Next]_vars

\* The entry point with its optional case_id argument: decide calls only.
NextIds ==
    \E data \in IdInputs, case_id \in CaseIdArgs :
        CanDecide(file, MaxIdCases) /\ Decide(data, case_id)

SpecIds == Init /\ [][NextIds]_vars

\* Long runs of outcome reports: quit-feedback on the stored cases, whatever the outcome.
NextLearn ==
    \/ \E data \in LearnInputs :
          CanDecide(file, MaxLearnCases) /\ Decide(data, None)
    \/ \E c \in StoredIds(file), s \in BOOLEAN :
          /\ CanFeedback(file, MakeFeedback(c, TRUE, s), MaxLearn)
          /\ SubmitFeedback(MakeFeedback(c, TRUE, s))

SpecLearn == Init /\ [][NextLearn]_vars

\* Calls on a store file in any state, with a disk that may fail.  The file is
\* the user's: it may be missing, half-written, unreadable, or hold anything.
FaultFiles ==
    {Absent, Partial, Unreadable, Undecodable, JsonNumber, JsonList(0), JsonList(1),
     JsonFile(EmptyDict), save_swarm_memory(default_memory)}

InitFaults ==
    /\ file \in FaultFiles
    /\ nextUuid = 0
    /\ last = NoCall
    /\ IdleThreads

NextFaults ==
    \/ \E data \in ConcInputs, disk \in Disks :
          /\ CanDecide(file, MaxFaultCases) /\ nextUuid < MaxFaultUuid
          /\ DecideDisk(data, None, disk)
    \/ \E feedback \in FeedbackInputs, disk \in Disks :
          CanFeedback(file, feedback, MaxFaultQuit) /\ SubmitFeedbackDisk(feedback, disk)

SpecFaults == InitFaults /\ [][NextFaults]_vars

----------------------------------------------------------------------------
(* Concurrent calls: the web front end serves each request on its own       *)
(* thread (Flask, frontend.py 857) and nothing serialises the handlers, so  *)
(* the steps of two calls interleave: load; compute on the local memory;    *)
(* open the file for writing, which truncates it; json.dump and return.     *)

\* what a thread keeps of the result it returned: the call, the case id, the status
\* (a SwarmDecision has no status field: decide returns normally or raises)
Returned(op, result) ==
    [op |-> op, case_id |-> result.case_id,
     status |-> IF op = "decide" THEN "ok" ELSE result.status]

\* what the store file held before the open("w") that left it truncated: the
\* content the writing thread found at its open; the file itself if no thread
\* is between its open and the end of its dump
BehindTruncation ==
    IF \E q \in Procs : pc[q] = "writing" /\ req[q].before # Partial
    THEN req[CHOOSE q \in Procs : pc[q] = "writing" /\ req[q].before # Partial].before
    ELSE file

\* memory = _load_swarm_memory() and the computation up to the save, in decide
LoadDecide(p, data) ==
    LET memory == load_swarm_memory(file)
        r == build_swarm_decision(memory, data, None, Uuid(nextUuid + 1))
    IN  /\ pc[p] = "idle"
        /\ pc' = [pc EXCEPT ![p] = "loaded"]
        /\ \E shown \in display_weights(r.result.used_agent_weights) :
              req' = [req EXCEPT ![p] = [op |-> "decide", seen |-> file, loaded |-> memory,
                                         hidden |-> BehindTruncation, before |-> file,
                                         result |-> SwarmDecision(r.result, shown)]]
        /\ mem' = [mem EXCEPT ![p] = r.memory]
        /\ nextUuid' = nextUuid + 1
        /\ UNCHANGED <<file, last, ret>>

\* the same in submit_feedback, the case being found
LoadFeedback(p, feedback) ==
    LET memory == load_swarm_memory(file)
        r == update_weights_after_feedback(memory, feedback)
    IN  /\ pc[p] = "idle"
        /\ r.found
        /\ pc' = [pc EXCEPT ![p] = "loaded"]
        /\ \E shown \in display_weights(r.result.updated_agent_weights) :
              req' = [req EXCEPT ![p] = [op |-> "submit_feedback", seen |-> file,
                                         loaded |-> memory, hidden |-> BehindTruncation,
                                         before |-> file,
                                         feedback |-> feedback,
                                         result |-> FeedbackResult(r.result, shown)]]
        /\ mem' = [mem EXCEPT ![p] = r.memory]
        /\ UNCHANGED <<file, nextUuid, last, ret>>

\* submit_feedback, the case not being found: returns at once, saves nothing
MissFeedback(p, feedback) ==
    LET memory == load_swarm_memory(file)
        r == update_weights_after_feedback(memory, feedback)
    IN  /\ pc[p] = "idle"
        /\ ~r.found
        /\ ret' = [ret EXCEPT ![p] = Returned("submit_feedback", r.result)]
        /\ UNCHANGED <<file, nextUuid, last, pc, req, mem>>

\* SWARM_MEMORY_PATH.open("w"): the file is truncated
OpenForWrite(p) ==
    /\ pc[p] = "loaded"
    /\ pc' = [pc EXCEPT ![p] = "writing"]
    /\ req' = [req EXCEPT ![p].before = file]
    /\ file' = Partial
    /\ UNCHANGED <<nextUuid, last, mem, ret>>

\* json.dump(memory, file) completes and the handler returns.  If another thread
\* completed its own dump since this thread's open, this dump overwrites that
\* content from offset 0: the result is this thread's document, or, when the
\* other document was longer, this document followed by the other's tail, which
\* is not valid JSON.
WriteAndReturn(p) ==
    /\ pc[p] = "writing"
    /\ \/ file' = save_swarm_memory(mem[p])
       \/ file.kind = "json" /\ file' = Partial
    /\ pc' = [pc EXCEPT ![p] = "idle"]
    /\ ret' = [ret EXCEPT ![p] = Returned(req[p].op, req[p].result)]
    /\ req' = [req EXCEPT ![p] = NoCall]
    /\ mem' = [mem EXCEPT ![p] = default_memory]
    /\ UNCHANGED <<nextUuid, last>>

\* outcome reports on decisions handed out so far: the user quit and succeeded
ConcFeedbackInputs ==
    {MakeFeedback(Uuid(n), TRUE, TRUE) : n \in 1..nextUuid}

NextConc ==
    \E p \in Procs :
        \/ \E data \in ConcInputs :
              /\ CanDecide(file, MaxConcCases) /\ nextUuid < MaxUuid
              /\ LoadDecide(p, data)
        \/ \E feedback \in ConcFeedbackInputs :
              CanFeedback(file, feedback, MaxConcQuit) /\ LoadFeedback(p, feedback)
        \/ \E feedback \in ConcFeedbackInputs : MissFeedback(p, feedback)
        \/ OpenForWrite(p)
        \/ WriteAndReturn(p)

SpecConc == Init /\ [][NextConc]_vars

----------------------------------------------------------------------------
(* The first decide call on a fresh store, for every input of a grid.       *)

InitWide ==
    /\ file = Absent
    /\ nextUuid = 0
    /\ \E skills \in {0, 3, 8, 12},
          endorse \in {"weak", "moderate", "strong"},
          reach \in {"small", "medium", "large"},
          posts \in {0, 1, 6, 8},
          expenses \in {0, 5000},
          savings \in {0, 20000, 30000, 60000},
          debt \in {0, 70000},
          investments \in {0, 40000},
          insured \in BOOLEAN,
          dependents \in {0, 1, 2},
          partner \in BOOLEAN,
          support \in {"low", "medium", "high"} :
            last = [op |-> "request",
                    data |-> MakeInput("medium", skills, endorse, reach, posts, expenses,
                                       savings, debt, 0, investments, 0, insured,
                                       dependents, partner, support)]
    /\ IdleThreads

FirstDecide == last.op = "request" /\ Decide(last.data, None)

SpecWide == InitWide /\ [][FirstDecide]_vars

----------------------------------------------------------------------------
(* The scoring functions one at a time, each applied to every argument of a  *)
(* grid, and the first decide call for three inputs.                         *)

\* an input that differs from the others in its feature signature only
FeatureInput(risk, skills, savings, dependents) ==
    MakeInput(risk, skills, "moderate", "medium", 2,
              5000, savings, 0, 0, 0, 0, TRUE, dependents, TRUE, "medium")

\* an input that differs from the others in its finances only
FinanceInput(expenses, savings, debt, side, investments, inv_income, insured) ==
    MakeInput("medium", 3, "moderate", "medium", 2,
              expenses, savings, debt, side, investments, inv_income, insured,
              0, TRUE, "medium")

InitUnits ==
    /\ file = Absent
    /\ nextUuid = 0
    /\ IdleThreads
    /\ \/ \E score \in 0..100 : last = [op |-> "score", score |-> score]
       \/ \E data \in IdInputs : last = [op |-> "request", data |-> data]
       \/ \E r1, r2 \in {"low", "medium", "high"}, k1, k2 \in {0, 1, 3, 6},
             s1, s2 \in {0, 30000, 40000, 60000}, d1, d2 \in {0, 1, 2, 4} :
               last = [op |-> "features", left |-> FeatureInput(r1, k1, s1, d1),
                       right |-> FeatureInput(r2, k2, s2, d2)]
       \/ \E expenses \in {0, 1000, 5000}, side \in {0, 1000, 6000}, inv_income \in {0, 500},
             savings \in {0, 3999, 4000, 15999, 16000, 23999, 24000, 30000, 47999, 48000, 60000},
             debt \in {0, 70000}, investments \in {0, 40000}, insured \in BOOLEAN :
               last = [op |-> "finances",
                       data |-> FinanceInput(expenses, savings, debt, side, investments,
                                             inv_income, insured)]

\* decision = _decision_from_score(aggregate_score)
MapScore ==
    /\ last.op = "score"
    /\ last' = [op |-> "decision_from_score", score |-> last.score,
                decision |-> decision_from_score(last.score)]
    /\ UNCHANGED <<file, nextUuid, pc, req, mem, ret>>

\* sim = _feature_similarity(current, case.get("features", {})), the features of
\* both sides made by _case_features
Similarity ==
    /\ last.op = "features"
    /\ last' = [op |-> "feature_similarity", left |-> last.left, right |-> last.right,
                similarity |-> feature_similarity(case_features(last.left),
                                                  case_features(last.right))]
    /\ UNCHANGED <<file, nextUuid, pc, req, mem, ret>>

\* _specialist_finance(data)
Finance ==
    /\ last.op = "finances"
    /\ last' = [op |-> "specialist_finance", data |-> last.data,
                assessment |-> specialist_finance(last.data)]
    /\ UNCHANGED <<file, nextUuid, pc, req, mem, ret>>

NextUnits == MapScore \/ Similarity \/ Finance \/ FirstDecide

SpecUnits == InitUnits /\ [][NextUnits]_vars

----------------------------------------------------------------------------
(* One decide call on a store that earlier calls built: each earlier call   *)
(* was a decide, followed or not by the outcome report on its case.         *)

\* the request of the call, and the earlier requests by their similarity to it
RecallQuery == FeatureInput("medium", 3, 30000, 1)
RecallSame == FeatureInput("medium", 3, 30000, 1)       \* similarity 1.00
RecallEdge == FeatureInput("high", 9, 30000, 5)         \* similarity 0.35
RecallFar == FeatureInput("high", 4, 60000, 2)          \* similarity 0.33

\* an earlier decide and the report made on its case, if any
EarlierCall(data, report) == [data |-> data, report |-> report]
Report(quit, success) == Some([did_user_quit |-> quit, was_successful |-> success])

EarlierCalls ==
    {EarlierCall(RecallSame, None),
     EarlierCall(RecallSame, Report(FALSE, TRUE)),
     EarlierCall(RecallSame, Report(TRUE, FALSE)),
     EarlierCall(RecallEdge, Report(TRUE, TRUE)),
     EarlierCall(RecallFar, Report(FALSE, TRUE))}

\* the memory after the calls of a history, made one after the other on a store
\* that starts absent: the n-th decide draws Uuid(n), and each call loads the
\* memory the call before it saved
RECURSIVE Replay(_)
Replay(history) ==
    IF history = <<>> THEN default_memory
    ELSE LET n == Len(history)
             call == history[n]
             before == Replay(SubSeq(history, 1, n - 1))
             decided == build_swarm_decision(before, call.data, None, Uuid(n)).memory
         IN  IF call.report = None THEN decided
             ELSE update_weights_after_feedback(
                      decided,
                      MakeFeedback(Uuid(n), call.report[1].did_user_quit,
                                   call.report[1].was_successful)).memory

InitRecall ==
    /\ \E n \in 0..MaxHistory : \E history \in [1..n -> EarlierCalls] :
          /\ file = (IF n = 0 THEN Absent ELSE save_swarm_memory(Replay(history)))
          /\ nextUuid = n
    /\ last = [op |-> "request", data |-> RecallQuery]
    /\ IdleThreads

SpecRecall == InitRecall /\ [][FirstDecide]_vars

----------------------------------------------------------------------------
(* The entry points that hand the decision to an LLM for its narrative.     *)

\* What the LLM capability does in one call: "absent", no API key (or no client
\* library); "fails", the request raises; "empty", the reply has no content;
\* "answers", the reply is a text.
Llms == {"absent", "fails", "empty", "answers"}
LlmText == <<"text of the LLM">>

\* _llm_opinion(system, user, fallback) of the web front end
llm_opinion(llm, fallback) ==
    IF llm = "absent" THEN fallback                \* if not _llm_ready(): return fallback
    ELSE IF llm = "fails" THEN fallback            \* except Exception: return fallback
    ELSE IF llm = "empty" THEN fallback            \* (content or fallback)
    ELSE LlmText

\* fallback_self_opinion of self_process
fallback_self_opinion(decision) ==
    IF decision.aggregate_score_0_to_100 >= 60
    THEN <<"Your profile supports a staged quit after checklist gates are met.">>
    ELSE <<"Your profile needs de-risking before quitting.">>

\* fallback_final of swarm_process: the recommendation, and a sentence for each
\* signal of the peer panel and of the job market
fallback_final(own, conservative, strong) ==
    <<own.recommendation>>
    \o (IF conservative THEN <<"Peers are conservative, so use stricter milestones.">> ELSE <<>>)
    \o (IF strong THEN <<"Strong job-market fallback lowers downside.">> ELSE <<>>)

\* _score_readiness: the DueDiligenceRecommendation made from a swarm decision
score_readiness(swarm) ==
    [risk_summary |-> [readiness_score_0_to_100 |-> swarm.aggregate_score_0_to_100,
                       recommendation |-> swarm.recommendation],
     recommended_quit_window |-> swarm.recommended_quit_window]

\* what app.ai(system, user, schema=DueDiligenceRecommendation) may return when
\* the LLM answers: a recommendation of the LLM's own making
LlmRecommendations ==
    {[risk_summary |-> [readiness_score_0_to_100 |-> score,
                        recommendation |-> "recommendation of the LLM"],
      recommended_quit_window |-> "window of the LLM"] : score \in {0, 100}}

\* the part every such entry point shares: _build_swarm_decision(data) on the
\* store, which saves, and then the response or the exception of the handler
Served(call, r, raised, responses) ==
    IF load_error(file) # "none"
    THEN /\ last' = [raised |-> load_error(file)] @@ call
         /\ UNCHANGED <<file, nextUuid, pc, req, mem, ret>>
    ELSE /\ file' = save_swarm_memory(r.memory)
         /\ nextUuid' = nextUuid + 1
         /\ IF raised # "none"
            THEN last' = [raised |-> raised] @@ call
            ELSE \E response \in responses :
                    last' = [raised |-> "none", result |-> response] @@ call
         /\ UNCHANGED <<pc, req, mem, ret>>

\* POST /api/self/process
SelfProcess(data, llm) ==
    LET r == build_swarm_decision(load_swarm_memory(file), data, None, Uuid(nextUuid + 1))
        self_opinion == llm_opinion(llm, fallback_self_opinion(r.result))
    IN  Served([op |-> "self_process", data |-> data, llm |-> llm], r, "none",
               {SwarmDecision(r.result, shown) @@ [self_simulated_opinion |-> self_opinion] :
                    shown \in display_weights(r.result.used_agent_weights)})

\* POST /api/swarm/process; conservative and strong are the signals of the peer
\* panel and of the job market, which other collaborators supply
SwarmProcess(data, llm, conservative, strong) ==
    LET r == build_swarm_decision(load_swarm_memory(file), data, None, Uuid(nextUuid + 1))
        final == llm_opinion(llm, fallback_final(r.result, conservative, strong))
    IN  Served([op |-> "swarm_process", data |-> data, llm |-> llm,
                conservative |-> conservative, strong |-> strong], r, "none",
               {[self_decision |-> SwarmDecision(r.result, shown),
                 swarm_final_opinion |-> final] :
                    shown \in display_weights(r.result.used_agent_weights)})

\* the recommend_quit_plan reasoner: without an API key the deterministic
\* _score_readiness(data); with one, _build_swarm_decision(data) and then
\* await app.ai(...), whose exception nothing catches and whose answer is returned
RecommendQuitPlan(data, llm) ==
    LET r == build_swarm_decision(load_swarm_memory(file), data, None, Uuid(nextUuid + 1))
    IN  Served([op |-> "recommend_quit_plan", data |-> data, llm |-> llm], r,
               IF llm \in {"fails", "empty"} THEN "Exception" ELSE "none",
               IF llm = "absent" THEN {score_readiness(r.result)} ELSE LlmRecommendations)

NextRefine ==
    \E data \in Inputs, llm \in Llms :
        /\ CanDecide(file, MaxRefineCases)
        /\ \/ SelfProcess(data, llm)
           \/ \E conservative, strong \in BOOLEAN : SwarmProcess(data, llm, conservative, strong)
           \/ RecommendQuitPlan(data, llm)

SpecRefine == Init /\ [][NextRefine]_vars

----------------------------------------------------------------------------
(* Properties *)

\* the persisted store as a reader of the file finds it
Store(f) == IF f.kind = "json" THEN dict_update(default_memory, f.data) ELSE default_memory
StoreIds(f) == {Store(f).cases[i].case_id : i \in 1..Len(Store(f).cases)}
StoreWeights(f) == Store(f).agent_weights
FirstIndex(cases, id) ==
    CHOOSE i \in 1..Len(cases) :
        cases[i].case_id = id /\ \A j \in 1..(i - 1) : cases[j].case_id # id
Learned(f) == StoreWeights(f) # default_memory.agent_weights

\* C1: after any sequence of decide and submit_feedback calls from the default
\* store, every entry of the persisted weight table is within [0.4, 2.5].
C1_WeightsWithinBounds ==
    \A a \in DOMAIN StoreWeights(file) :
        WMin <= StoreWeights(file)[a] /\ StoreWeights(file)[a] <= WMax

\* C1 witness: repeated feedback has driven one weight to 2.5 and another to 0.4
C1_BothClampsReached ==
    /\ \E a \in AgentSet : StoreWeights(file)[a] = WMax
    /\ \E a \in AgentSet : StoreWeights(file)[a] = WMin
    /\ MaxTotal(Store(file)) >= 12

\* C2: submit_feedback with a case id that matches no stored case returns status
\* "error" with an empty weight map, and leaves the persisted store as it was.
C2_UnknownCaseNoMutation ==
    [][(last'.op = "submit_feedback" /\ last'.feedback.case_id \notin StoreIds(file))
        => /\ last'.result.status = "error"
           /\ last'.result.updated_agent_weights = EmptyDict
           /\ file' = file]_vars

\* C2 witness: an error result while the store holds cases and learned weights
C2_ErrorOnLearnedStore ==
    /\ last.op = "submit_feedback"
    /\ last.result.status = "error"
    /\ Len(Store(file).cases) >= 1
    /\ Learned(file)

\* C3: submit_feedback on an existing case with did_user_quit = false leaves the
\* weight table and the scorecard unchanged, whatever was_successful is; the only
\* change to the store is the feedback record attached to that case.
C3_NoQuitNoLearning ==
    [][(/\ last'.op = "submit_feedback"
        /\ last'.feedback.case_id \in StoreIds(file)
        /\ ~last'.feedback.did_user_quit)
        => LET old == Store(file)
               new == Store(file')
               i == FirstIndex(old.cases, last'.feedback.case_id)
           IN  /\ last'.result.status = "ok"
               /\ new.agent_weights = old.agent_weights
               /\ new.agent_scorecard = old.agent_scorecard
               /\ new.cases = [old.cases EXCEPT ![i].feedback = Some(last'.feedback)]]_vars

\* C3 witness: a no-quit report marked successful, stored on a store with learned weights
C3_NoQuitStored ==
    /\ last.op = "submit_feedback"
    /\ last.result.status = "ok"
    /\ ~last.feedback.did_user_quit
    /\ last.feedback.was_successful
    /\ Learned(file)

\* C4: once a feedback record is attached to a case, no later submit_feedback for
\* the same case id changes the case record, the weight table or the scorecard.
C4_FeedbackAttachedOnce ==
    [][(/\ last'.op = "submit_feedback"
        /\ last'.feedback.case_id \in StoreIds(file)
        /\ Store(file).cases[FirstIndex(Store(file).cases, last'.feedback.case_id)].feedback
              # None)
        => Store(file') = Store(file)]_vars

\* C5: after any sequence of decide calls, with or without a caller-supplied
\* case_id, no two case records in the store carry the same case identifier.
C5_UniqueCaseIds ==
    \A i, j \in 1..Len(Store(file).cases) :
        i # j => Store(file).cases[i].case_id # Store(file).cases[j].case_id

\* C6: with calls served one at a time, every decide call makes the case list one
\* record longer with the new record last and leaves the earlier records, the
\* weight table and the scorecard unchanged; no call removes or reorders a case.
C6_DecideAppendsOnly ==
    [][LET old == Store(file)
           new == Store(file')
       IN  /\ last'.op = "decide" =>
                /\ Len(new.cases) = Len(old.cases) + 1
                /\ SubSeq(new.cases, 1, Len(old.cases)) = old.cases
                /\ new.cases[Len(new.cases)].case_id = last'.result.case_id
                /\ new.agent_weights = old.agent_weights
                /\ new.agent_scorecard = old.agent_scorecard
           /\ last'.op = "submit_feedback" =>
                /\ Len(new.cases) = Len(old.cases)
                /\ \A i \in 1..Len(old.cases) : new.cases[i].case_id = old.cases[i].case_id]_vars

\* C6 witness: a decide call has appended a second case to a store whose first
\* case carries feedback and whose weights were learned
C6_AppendedToLearnedStore ==
    /\ last.op = "decide"
    /\ Len(Store(file).cases) = 2
    /\ Store(file).cases[1].feedback # None
    /\ Store(file).cases[2].case_id = last.result.case_id
    /\ Learned(file)

\* C7: when decide returns a decision with case id X, a case record with id X is
\* in the persisted store; a submit_feedback for X that follows with no other
\* write in between returns status "ok".
C7_ReturnedCaseIsStored ==
    [][/\ last'.op = "decide" => last'.result.case_id \in StoreIds(file')
       /\ (/\ last.op = "decide"
           /\ last'.op = "submit_feedback"
           /\ last'.feedback.case_id = last.result.case_id)
          => last'.result.status = "ok"]_vars

\* C7 witness: feedback accepted for the case that the latest decide call stored
C7_FeedbackOnLatestCase ==
    /\ last.op = "submit_feedback"
    /\ last.result.status = "ok"
    /\ Len(Store(file).cases) = 2
    /\ last.feedback.case_id = Store(file).cases[2].case_id

\* a thread completes the save of its call in this step
Saves(p, op) == pc[p] = "writing" /\ pc'[p] = "idle" /\ req[p].op = op

\* C8 as stated: under every interleaving, the weight table in the store right
\* after a decide call's save equals the weight table right before that save.
C8_DecideSaveKeepsWeights ==
    [][\A p \in Procs :
          Saves(p, "decide") => StoreWeights(file') = StoreWeights(req[p].before)]_vars

\* C8 amended: a decide call saves the weight table it loaded; when no other call
\* wrote the store between the call's load and the end of its save, the weight
\* table right after the save equals the table right before it.
C8_DecideSavesLoadedWeights ==
    [][\A p \in Procs :
          Saves(p, "decide") =>
            /\ file'.kind = "json" => StoreWeights(file') = StoreWeights(req[p].seen)
            /\ (req[p].before = req[p].seen /\ file = Partial)
                 => /\ file'.kind = "json"
                    /\ StoreWeights(file') = StoreWeights(req[p].before)]_vars

\* C8 witness: a decide call was the last to save, on a store with learned weights
C8_DecideSavedLearnedWeights ==
    \E p \in Procs :
        /\ ret[p].op = "decide"
        /\ file.kind = "json"
        /\ Len(Store(file).cases) >= 1
        /\ Store(file).cases[Len(Store(file).cases)].case_id = ret[p].case_id
        /\ Learned(file)

\* C9: store access is not serialised.  Every completed save replaces the whole
\* store by the saving call's own memory, that is what the call loaded plus its
\* own update, whatever other calls saved since that load: the last writer wins.
C9_LastWriterWins ==
    [][\A p \in Procs :
          (pc[p] = "writing" /\ pc'[p] = "idle" /\ file'.kind = "json") =>
             LET loaded == req[p].loaded
                 new == Store(file')
             IN  /\ req[p].op = "decide" =>
                      /\ new.agent_weights = loaded.agent_weights
                      /\ new.agent_scorecard = loaded.agent_scorecard
                      /\ Len(new.cases) = Len(loaded.cases) + 1
                      /\ SubSeq(new.cases, 1, Len(loaded.cases)) = loaded.cases
                      /\ new.cases[Len(new.cases)].case_id = req[p].result.case_id
                 /\ req[p].op = "submit_feedback" =>
                      /\ req[p].result.updated_agent_weights \in display_weights(new.agent_weights)
                      /\ MaxTotal(new) =
                           MaxTotal(loaded) + (IF req[p].feedback.did_user_quit THEN 1 ELSE 0)
                      /\ new.cases =
                           [loaded.cases EXCEPT
                              ![FirstIndex(loaded.cases, req[p].feedback.case_id)].feedback =
                                  Some(req[p].feedback)]]_vars

\* C9 witness: both threads have returned normally, the file is complete, and the
\* case one of them appended is not in the store
C9_LostUpdate ==
    /\ \A p \in Procs : pc[p] = "idle" /\ ret[p].op # "none" /\ ret[p].status = "ok"
    /\ file.kind = "json"
    /\ \E p \in Procs : ret[p].op = "decide" /\ ret[p].case_id \notin StoreIds(file)

C11_SpecialistsIgnoreStore ==
    last.op = "decide" =>
        \A i \in 1..Len(Store(file).cases) :
            Store(file).cases[i].input = last.data
                => Store(file).cases[i].specialists = last.result.specialists

\* C11 witness: the same input was decided twice, first on the empty default
\* store, then on a store with a case, feedback, a scorecard and learned weights
C11_SameInputOnLearnedStore ==
    /\ last.op = "decide"
    /\ Len(Store(file).cases) = 2
    /\ Store(file).cases[1].input = last.data
    /\ Store(file).cases[2].case_id = last.result.case_id
    /\ Store(file).cases[1].feedback # None
    /\ last.result.used_agent_weights # default_memory.agent_weights
    /\ DOMAIN Store(file).agent_scorecard # {}

\* C12: loading the store never raises to the caller, whatever the store file
\* holds: on a file that is absent, unreadable, not valid JSON or not the expected
\* object, decide and submit_feedback proceed from the default state.
C12_LoadNeverRaises ==
    [][(last'.op \in {"decide", "submit_feedback"} /\ file.kind # "json") =>
          /\ last'.raised \notin {"TypeError", "UnicodeDecodeError"}
          /\ (last'.op = "decide" /\ last'.raised = "none") =>
                /\ last'.result.used_agent_weights = default_memory.agent_weights
                /\ last'.result.similar_cases = <<>>
                /\ Len(Store(file').cases) = 1
          /\ (last'.op = "submit_feedback" /\ last'.raised = "none") =>
                last'.result.status = "error" /\ file' = file]_vars

\* C13: if writing the store fails during decide, or during submit_feedback on an
\* existing case, the call raises OSError (the only error of these calls that
\* comes from storage) and returns nothing; a decision that is returned has its
\* case in the store, an "ok" feedback result has its feedback in the store.
C13_SaveFailureRaises ==
    [][/\ (/\ last'.op \in {"decide", "submit_feedback"}
           /\ last'.disk # "ok"
           /\ load_error(file) = "none"
           /\ last'.op = "submit_feedback" => last'.feedback.case_id \in StoreIds(file))
          => last'.raised = "OSError" /\ "result" \notin DOMAIN last'
       /\ (last'.op = "decide" /\ last'.raised = "none")
          => last'.result.case_id \in StoreIds(file')
       /\ (/\ last'.op = "submit_feedback"
           /\ last'.raised = "none"
           /\ last'.result.status = "ok")
          => LET cases == Store(file').cases
             IN  cases[FirstIndex(cases, last'.feedback.case_id)].feedback
                    = Some(last'.feedback)]_vars

\* C13 witness: a submit_feedback on an existing case failed while writing: the
\* call raised OSError and the store file is left half-written
C13_FeedbackWriteFailed ==
    /\ last.op = "submit_feedback"
    /\ last.disk = "write_fails"
    /\ last.raised = "OSError"
    /\ file = Partial
    /\ nextUuid >= 1

\* C14: saving a store state reached through decide and submit_feedback and
\* loading it again yields the same weight table, scorecard and case list: what
\* a call's save leaves in the file loads as the memory the call saved.
C14_SaveLoadRoundTrip ==
    [][/\ last'.op = "decide" =>
            load_swarm_memory(file') =
               build_swarm_decision(load_swarm_memory(file), last'.data, last'.case_id,
                                    Uuid(nextUuid + 1)).memory
       /\ (last'.op = "submit_feedback" /\ last'.result.status = "ok") =>
            load_swarm_memory(file') =
               update_weights_after_feedback(load_swarm_memory(file), last'.feedback).memory]_vars

\* C14 witness: a saved store with two cases, one with feedback attached, a
\* scorecard, and a weight with four decimals
C14_LearnedStoreSaved ==
    /\ last.op = "submit_feedback"
    /\ last.result.status = "ok"
    /\ Len(Store(file).cases) = 2
    /\ \E i \in 1..2 : Store(file).cases[i].feedback # None
    /\ \E a \in AgentSet : StoreWeights(file)[a] % 10 # 0
    /\ DOMAIN Store(file).agent_scorecard = AgentSet

\* a submit_feedback call with did_user_quit = true has just updated an existing case
QuitFeedbackStep ==
    /\ last'.op = "submit_feedback"
    /\ last'.result.status = "ok"
    /\ last'.feedback.did_user_quit

\* the specialist assessments stored on the case a feedback record names
TargetSpecialists(memory, feedback) ==
    memory.cases[FirstIndex(memory.cases, feedback.case_id)].specialists

\* C15: submit_feedback with did_user_quit = true on an existing case sets, for
\* every specialist stored on the case, weight' = clamp(weight * 1.08, 0.4, 2.5)
\* when correct and clamp(weight * 0.92, 0.4, 2.5) when not, rounded to 4
\* decimals, where correct is: was_successful equals (verdict = "go"); from
\* weight 1.0 a correct specialist gets 1.08.
C15_WeightNudgeRule ==
    [][QuitFeedbackStep =>
         \A i \in 1..Len(TargetSpecialists(Store(file), last'.feedback)) :
            LET sp == TargetSpecialists(Store(file), last'.feedback)[i]
                correct == last'.feedback.was_successful <=> (sp.verdict = "go")
                w == StoreWeights(file)[sp.agent]
                nudged == w * (IF correct THEN 108 ELSE 92)
                clamped == Max(40 * WScale, Min(250 * WScale, nudged))
            IN  /\ StoreWeights(file')[sp.agent] = Round(clamped, 100)
                /\ (w = WScale /\ correct) => StoreWeights(file')[sp.agent] = 10800]_vars

\* C15 witness: an unsuccessful quit reported on a case with verdicts go, wait,
\* wait, hold, from default weights: the "go" specialist is at 0.92, the "wait"
\* and "hold" specialists are all at 1.08
C15_WaitAndHoldAlike ==
    /\ last.op = "submit_feedback"
    /\ last.result.status = "ok"
    /\ last.feedback.did_user_quit /\ ~last.feedback.was_successful
    /\ StoreWeights(file) =
          [a \in AgentSet |-> IF a = "finance_risk_agent" THEN 9200 ELSE 10800]
    /\ {Store(file).cases[1].specialists[i].verdict : i \in 1..4} = {"go", "wait", "hold"}

\* C16: submit_feedback with did_user_quit = true on an existing case increments
\* the scorecard total of every specialist on the case by exactly 1 and its
\* correct count by 1 exactly when the specialist was correct; a specialist
\* without a scorecard entry starts from correct 0, total 0.
C16_ScorecardCounts ==
    [][QuitFeedbackStep =>
         /\ \A i \in 1..Len(TargetSpecialists(Store(file), last'.feedback)) :
               LET sp == TargetSpecialists(Store(file), last'.feedback)[i]
                   correct == last'.feedback.was_successful <=> (sp.verdict = "go")
                   old == Store(file).agent_scorecard
                   before == IF sp.agent \in DOMAIN old THEN old[sp.agent]
                             ELSE [correct |-> 0, total |-> 0]
                   after == Store(file').agent_scorecard[sp.agent]
               IN  /\ after.total = before.total + 1
                   /\ after.correct = before.correct + (IF correct THEN 1 ELSE 0)
         /\ DOMAIN Store(file').agent_scorecard =
               DOMAIN Store(file).agent_scorecard
                  \cup {TargetSpecialists(Store(file), last'.feedback)[i].agent : i \in 1..4}]_vars

\* C16 witness: after two successful quit reports on a case with verdicts go,
\* wait, wait, hold every specialist has total 2, the "go" specialist was
\* correct both times and the others never
C16_MixedScorecard ==
    /\ last.op = "submit_feedback"
    /\ last.feedback.did_user_quit
    /\ Store(file).agent_scorecard =
          [a \in AgentSet |-> [correct |-> IF a = "finance_risk_agent" THEN 2 ELSE 0,
                               total |-> 2]]

\* the recommendation and window of a score, by the cuts as stated
CutsHold(score, recommendation, window) ==
    /\ score >= 75 =>
          /\ recommendation = "Proceed with a near-term quit once checklist gates are met."
          /\ window = "1 to 3 months"
    /\ (58 <= score /\ score < 75) =>
          /\ recommendation = "Delay quitting and de-risk execution first."
          /\ window = "3 to 6 months"
    /\ score < 58 =>
          /\ recommendation = "Do not quit yet; build financial and demand stability."
          /\ window = "6 to 12+ months"

\* C17: the final aggregate score is mapped to recommendation and window by
\* fixed cuts, for every score in 0..100: 75 and above proceed, 1 to 3 months;
\* 58 to 74 delay and de-risk, 3 to 6 months; below 58 do not quit yet, 6 to 12+
\* months; the recommendation stored in the case record is the one returned.
C17_RecommendationByCuts ==
    /\ last.op = "decision_from_score" =>
          CutsHold(last.score, last.decision.recommendation, last.decision.window)
    /\ last.op = "decide" =>
          /\ CutsHold(last.result.aggregate_score_0_to_100, last.result.recommendation,
                      last.result.recommended_quit_window)
          /\ Store(file).cases[Len(Store(file).cases)].recommendation
                = last.result.recommendation
          /\ Store(file).cases[Len(Store(file).cases)].aggregate_score
                = last.result.aggregate_score_0_to_100

\* C17 witness: a decide call whose aggregate score is 57, one below the cut,
\* returned and stored the do-not-quit-yet recommendation
C17_JustBelowDelayCut ==
    /\ last.op = "decide"
    /\ last.result.aggregate_score_0_to_100 = 57
    /\ last.result.recommended_quit_window = "6 to 12+ months"
    /\ Store(file).cases[1].recommendation = last.result.recommendation

\* C18: for two inputs with the same feature signature the similarity is 1.0; for
\* every pair it is 0.35 [same runway bucket] + 0.2 [same risk tolerance]
\* + max(0, 0.25 - 0.08 |dependents difference|) + max(0, 0.2 - 0.04 |skills
\* difference|), within [0, 1].
C18_SimilarityFormula ==
    last.op = "feature_similarity" =>
        LET l == last.left
            r == last.right
            bucket(d) ==
                LET fin == d.financial_situation
                    burn == Max(fin.monthly_expenses_usd - fin.expected_side_income_usd
                                  - fin.expected_investment_monthly_income_usd, 1)
                IN  IF fin.liquid_savings_usd >= 8 * burn THEN "high"
                    ELSE IF fin.liquid_savings_usd >= 5 * burn THEN "medium" ELSE "low"
            same_bucket == bucket(l) = bucket(r)
            same_risk == l.personal_background.risk_tolerance
                            = r.personal_background.risk_tolerance
            dep == Abs(l.family_context.dependents_count - r.family_context.dependents_count)
            skills == Abs(l.linkedin_context.top_skills_len - r.linkedin_context.top_skills_len)
        IN  /\ last.similarity =
                  (IF same_bucket THEN 35 ELSE 0) + (IF same_risk THEN 20 ELSE 0)
                    + Max(0, 25 - 8 * dep) + Max(0, 20 - 4 * skills)
            /\ last.similarity \in 0..100
            /\ (same_bucket /\ same_risk /\ dep = 0 /\ skills = 0) => last.similarity = 100

\* C18 witness: two different inputs with the same feature signature (savings of
\* 40000 and of 60000 at a monthly burn of 5000 are both in the "high" runway
\* bucket) have similarity 1.0
C18_SameSignature ==
    /\ last.op = "feature_similarity"
    /\ last.left # last.right
    /\ case_features(last.left) = case_features(last.right)
    /\ last.left.linkedin_context.top_skills_len = 6
    /\ last.left.family_context.dependents_count = 4
    /\ last.similarity = 100

\* C20: the finance specialist applies exactly one runway tier to base 35, with
\* runway = savings / max(expenses - side income - investment income, 1):
\* runway >= 12 gives +35, 6 <= runway < 12 +20, 4 <= runway < 6 +10, runway < 4
\* -15; savings 30000, expenses 5000, side income 1000 is the +20 tier.
C20_FinanceRunwayTier ==
    last.op = "specialist_finance" =>
        LET fin == last.data.financial_situation
            burn == Max(fin.monthly_expenses_usd - fin.expected_side_income_usd
                          - fin.expected_investment_monthly_income_usd, 1)
            savings == fin.liquid_savings_usd
            tiers == {t \in {<<12, 35>>, <<6, 20>>, <<4, 10>>, <<0, 0 - 15>>} :
                        /\ savings >= t[1] * burn
                        /\ \A u \in {12, 6, 4} : u > t[1] => savings < u * burn}
            other == (IF fin.debt_usd > 12 * fin.monthly_expenses_usd THEN 0 - 10 ELSE 0)
                     + (IF fin.other_investments_usd >= 8 * fin.monthly_expenses_usd THEN 7 ELSE 0)
                     + (IF fin.health_insurance_if_quit THEN 0 ELSE 0 - 12)
        IN  /\ burn >= 1
            /\ Cardinality(tiers) = 1
            /\ \A t \in tiers :
                  last.assessment.score_0_to_100 = Max(0, Min(100, 35 + t[2] + other))
            /\ (savings = 30000 /\ burn = 4000) => tiers = {<<6, 20>>}

\* C20 witness: savings 30000, expenses 5000, side income 1000, nothing else:
\* runway 7.5, score 35 + 20 = 55
C20_RunwaySevenAndAHalf ==
    /\ last.op = "specialist_finance"
    /\ last.data = FinanceInput(5000, 30000, 0, 1000, 0, 0, TRUE)
    /\ last.assessment.score_0_to_100 = 55
    /\ last.assessment.verdict = "wait"

\* C19: the market specialist's score is clamp(30 + 4 min(skills, 8) + reach term
\* (+20 large, +10 medium, -5 small) + endorsement term (+12 strong, -12 weak,
\* 0 moderate) + posts term (+8 if posts >= 6, -7 if posts = 0, else 0), 0, 100);
\* zero skills, medium reach, moderate endorsement, zero posts: 33, "hold".
C19_MarketScoreFormula ==
    last.op = "decide" =>
        LET link == last.data.linkedin_context
            market == last.result.specialists[2]
            raw == 30 + 4 * Min(link.top_skills_len, 8)
                   + (IF link.network_reach = "large" THEN 20
                      ELSE IF link.network_reach = "medium" THEN 10 ELSE 0 - 5)
                   + (IF link.endorsements_strength = "strong" THEN 12
                      ELSE IF link.endorsements_strength = "weak" THEN 0 - 12 ELSE 0)
                   + (IF link.recent_relevant_posts >= 6 THEN 8
                      ELSE IF link.recent_relevant_posts = 0 THEN 0 - 7 ELSE 0)
        IN  /\ market.agent = "career_market_agent"
            /\ market.score_0_to_100 = Max(0, Min(100, raw))
            /\ (/\ link.top_skills_len = 0 /\ link.network_reach = "medium"
                /\ link.endorsements_strength = "moderate" /\ link.recent_relevant_posts = 0)
               => market.score_0_to_100 = 33 /\ market.verdict = "hold"

\* the decide call that `last` records returned a decision
Decided == last.op = "decide" /\ last.raised = "none"

\* the weighted mean of the four scores under a weight table, rounded to an
\* integer (ties to even); a specialist the table lacks weighs 1.0
RoundedMean(specialists, weights) ==
    LET w(i) == DictGet(weights, specialists[i].agent, WScale)
        total == w(1) + w(2) + w(3) + w(4)
        num == specialists[1].score_0_to_100 * w(1) + specialists[2].score_0_to_100 * w(2)
               + specialists[3].score_0_to_100 * w(3) + specialists[4].score_0_to_100 * w(4)
    IN  Round(num, total)

\* the shift the labels of a list of similar cases call for
LabelShift(similar) ==
    LET labelled == {i \in 1..Len(similar) : similar[i].was_successful # None}
        good == {i \in labelled : similar[i].was_successful = Some(TRUE)}
    IN  IF Cardinality(labelled) < 2 THEN 0
        ELSE IF 10 * Cardinality(good) >= 7 * Cardinality(labelled) THEN 4
        ELSE IF 10 * Cardinality(good) <= 4 * Cardinality(labelled) THEN -4
        ELSE 0

\* the cases a decide call found in the store: all but the one it appended
CasesFound == SubSeq(Store(file).cases, 1, Len(Store(file).cases) - 1)

\* C21: the shift of a decision comes from the similar cases it returns and from
\* nothing else: they are at most 4; with at least 2 labels among them the shift
\* is +4 when the fraction of successes is at least 0.7, -4 when it is at most
\* 0.4, 0 otherwise, and with fewer than 2 labels it is 0; the aggregate score is
\* the rounded weighted mean of the specialist scores plus the shift, clamped to
\* [0, 100].
C21_ShiftFromRetrieved ==
    Decided =>
        /\ Len(last.result.similar_cases) <= 4
        /\ last.result.aggregate_score_0_to_100 =
              Max(0, Min(100, RoundedMean(last.result.specialists, StoreWeights(file))
                              + LabelShift(last.result.similar_cases)))

\* C21 witness: a decision shifted by +4 on two successes among its four similar
\* cases, while the store held a fifth case just as similar, labelled a failure,
\* that would have brought the fraction to 2/3 and the shift to 0
C21_FifthLabelIgnored ==
    /\ Decided
    /\ Len(last.result.similar_cases) = 4
    /\ LabelShift(last.result.similar_cases) = 4
    /\ last.result.aggregate_score_0_to_100 =
          RoundedMean(last.result.specialists, StoreWeights(file)) + 4
    /\ Cardinality({i \in 1..4 : last.result.similar_cases[i].was_successful # None}) = 2
    /\ \E i \in 1..Len(CasesFound) :
          /\ CasesFound[i].features = case_features(last.data)
          /\ CasesFound[i].feedback # None
          /\ ~CasesFound[i].feedback[1].was_successful
          /\ \A j \in 1..4 : last.result.similar_cases[j].case_id # CasesFound[i].case_id

\* the similarity of a stored case to the request of the call that `last` records
SimTo(case) == feature_similarity(case_features(last.data), case.features)

\* the place in the store of the case a similar-case entry names, 0 if none
PlaceOf(entry) ==
    IF \E i \in 1..Len(CasesFound) : CasesFound[i].case_id = entry.case_id
    THEN FirstIndex(CasesFound, entry.case_id)
    ELSE 0

\* C22: the similar cases of a decision are at most 4 of the cases found in the
\* store, each with its similarity to the request, which is at least 0.35; they
\* are in non-increasing order of similarity, equally similar ones in the order
\* of their insertion; and no stored case with similarity at least 0.35 is left
\* out while a less similar case is returned.
C22_TopSimilarInOrder ==
    Decided =>
        LET similar == last.result.similar_cases
            n == Len(similar)
        IN  /\ n <= 4
            /\ \A i \in 1..n :
                  /\ PlaceOf(similar[i]) > 0
                  /\ similar[i].similarity_0_to_1 = SimTo(CasesFound[PlaceOf(similar[i])])
                  /\ similar[i].similarity_0_to_1 >= 35
            /\ \A i, j \in 1..n :
                  i < j =>
                    /\ similar[i].similarity_0_to_1 >= similar[j].similarity_0_to_1
                    /\ similar[i].similarity_0_to_1 = similar[j].similarity_0_to_1
                          => PlaceOf(similar[i]) < PlaceOf(similar[j])
            /\ \A k \in 1..Len(CasesFound) :
                  (/\ SimTo(CasesFound[k]) >= 35
                   /\ \A i \in 1..n : PlaceOf(similar[i]) # k)
                  => \A i \in 1..n : similar[i].similarity_0_to_1 >= SimTo(CasesFound[k])

\* C22 witness: five stored cases reach 0.35; the first stored one, of similarity
\* exactly 0.35, is left out and the four equally similar ones stored after it
\* are returned in their order of insertion
C22_LessSimilarLeftOut ==
    /\ Decided
    /\ Len(last.result.similar_cases) = 4
    /\ Len(CasesFound) = 5
    /\ SimTo(CasesFound[1]) = 35
    /\ \A i \in 1..4 :
          /\ last.result.similar_cases[i].similarity_0_to_1 = 100
          /\ PlaceOf(last.result.similar_cases[i]) = i + 1

\* the verdict a score calls for under a pair of cuts
VerdictByCuts(score, go_cut, wait_cut) ==
    IF score >= go_cut THEN "go" ELSE IF score >= wait_cut THEN "wait" ELSE "hold"

\* C23: the verdict of each specialist is a function of its own clamped score
\* under its own two cuts and is one of go, wait, hold: finance go from 72 and
\* wait from 50, market 70 and 48, family 72 and 52, LinkedIn 68 and 45.
C23_VerdictByOwnCuts ==
    Decided =>
        LET sp == last.result.specialists
        IN  /\ Len(sp) = 4
            /\ \A i \in 1..4 : sp[i].verdict \in {"go", "wait", "hold"}
            /\ sp[1].agent = "finance_risk_agent"
            /\ sp[1].verdict = VerdictByCuts(sp[1].score_0_to_100, 72, 50)
            /\ sp[2].agent = "career_market_agent"
            /\ sp[2].verdict = VerdictByCuts(sp[2].score_0_to_100, 70, 48)
            /\ sp[3].agent = "family_stability_agent"
            /\ sp[3].verdict = VerdictByCuts(sp[3].score_0_to_100, 72, 52)
            /\ sp[4].agent = "linkedin_positioning_agent"
            /\ sp[4].verdict = VerdictByCuts(sp[4].score_0_to_100, 68, 45)

\* C23 witness: two specialists of one decision have the same score and different
\* verdicts, and a third sits exactly on its "wait" cut
C23_SameScoreOtherVerdict ==
    /\ Decided
    /\ \E i, j \in 1..4 :
          /\ last.result.specialists[i].score_0_to_100 = last.result.specialists[j].score_0_to_100
          /\ last.result.specialists[i].verdict # last.result.specialists[j].verdict
    /\ last.result.specialists[1].score_0_to_100 = 50
    /\ last.result.specialists[1].verdict = "wait"

\* the case record the call that `last` records appended to the store
RecordedCase == Store(file).cases[Len(Store(file).cases)]

\* C24: on every entry point that refines with an LLM (the web self and swarm
\* routes and the recommend_quit_plan reasoner), when the LLM capability is
\* absent or its call fails, the caller still receives the deterministic
\* decision and recommendation text: the call does not raise, and what it
\* returns carries the recommendation and score recorded for the case and the
\* fallback text.
C24_RefinementNeverBlocks ==
    (/\ last.op \in {"self_process", "swarm_process", "recommend_quit_plan"}
     /\ last.llm \in {"absent", "fails"})
    => /\ last.raised = "none"
       /\ last.op = "self_process" =>
            /\ last.result.recommendation = RecordedCase.recommendation
            /\ last.result.aggregate_score_0_to_100 = RecordedCase.aggregate_score
            /\ last.result.self_simulated_opinion = fallback_self_opinion(last.result)
       /\ last.op = "swarm_process" =>
            /\ last.result.self_decision.recommendation = RecordedCase.recommendation
            /\ last.result.self_decision.aggregate_score_0_to_100 = RecordedCase.aggregate_score
            /\ last.result.swarm_final_opinion[1] = RecordedCase.recommendation
       /\ last.op = "recommend_quit_plan" =>
            /\ last.result.risk_summary.recommendation = RecordedCase.recommendation
            /\ last.result.risk_summary.readiness_score_0_to_100 = RecordedCase.aggregate_score

\* the same for the two web routes alone, which go through _llm_opinion
C24_WebRoutesFallBack ==
    last.op \in {"self_process", "swarm_process"} => C24_RefinementNeverBlocks

\* C25 as stated: used_agent_weights holds, for each of the four specialists, the
\* weight that multiplied its score (1.0 for a specialist the stored table lacks).
C25_UsedWeightsExact ==
    Decided =>
        \A a \in AgentSet :
            /\ a \in DOMAIN last.result.used_agent_weights
            /\ last.result.used_agent_weights[a] = DictGet(StoreWeights(file), a, WScale)

\* C25, amended: the score of a decision is aggregated under the stored weight
\* table, and used_agent_weights holds, for each specialist of that table, its
\* weight rounded to 3 decimals: a multiple of 0.001 within 0.0005 of the weight
\* that multiplied the specialist's score.
C25_UsedWeightsRounded ==
    Decided =>
        /\ DOMAIN last.result.used_agent_weights = DOMAIN StoreWeights(file)
        /\ \A a \in DOMAIN StoreWeights(file) :
              /\ last.result.used_agent_weights[a] % 10 = 0
              /\ Abs(last.result.used_agent_weights[a] - StoreWeights(file)[a]) <= 5
        /\ last.result.aggregate_score_0_to_100 =
              Max(0, Min(100, RoundedMean(last.result.specialists, StoreWeights(file))
                              + LabelShift(last.result.similar_cases)))

\* C25 witness: a decision made under a learned weight of four decimals, 1.1664,
\* reports it as 1.166
C25_FourthDecimalDropped ==
    /\ Decided
    /\ \E a \in DOMAIN StoreWeights(file) :
          /\ StoreWeights(file)[a] = 11664
          /\ last.result.used_agent_weights[a] = 11660

\* C26: in every store that sequential calls reach, each scorecard entry has
\* 0 <= correct <= total, and no call removes an entry or lowers either of its
\* counts.
C26_ScorecardSound ==
    [][LET old == Store(file).agent_scorecard
           new == Store(file').agent_scorecard
       IN  /\ \A a \in DOMAIN new : 0 <= new[a].correct /\ new[a].correct <= new[a].total
           /\ \A a \in DOMAIN old :
                 /\ a \in DOMAIN new
                 /\ new[a].correct >= old[a].correct
                 /\ new[a].total >= old[a].total]_vars

\* C26 witness: after several quit reports a specialist has been right some of
\* the times and wrong the others, and another one right every time
C26_PartlyCorrect ==
    /\ last.op = "submit_feedback"
    /\ \E a, b \in DOMAIN Store(file).agent_scorecard :
          /\ Store(file).agent_scorecard[a].total >= 3
          /\ 0 < Store(file).agent_scorecard[a].correct
          /\ Store(file).agent_scorecard[a].correct < Store(file).agent_scorecard[a].total
          /\ Store(file).agent_scorecard[b].correct + Store(file).agent_scorecard[a].correct
                = Store(file).agent_scorecard[a].total

\* C27: the similar cases of a decision are cases that were in the store when the
\* call loaded it; the case the call appends, under its freshly drawn id, is not
\* among them, however similar to itself it is.
C27_SimilarCasesFromLoadedStore ==
    [][(last'.op = "decide" /\ last'.raised = "none" /\ last'.case_id = None) =>
          /\ last'.result.case_id \notin StoreIds(file)
          /\ \A i \in 1..Len(last'.result.similar_cases) :
                /\ last'.result.similar_cases[i].case_id \in StoreIds(file)
                /\ last'.result.similar_cases[i].case_id # last'.result.case_id]_vars

\* C27 witness: a decision with one to three similar cases, all stored before the
\* call, although the case it appended has the features of the request
C27_RoomLeftForOwnCase ==
    /\ Decided
    /\ Len(last.result.similar_cases) \in 1..3
    /\ RecordedCase.case_id = last.result.case_id
    /\ SimTo(RecordedCase) = 100
    /\ \A i \in 1..Len(last.result.similar_cases) : PlaceOf(last.result.similar_cases[i]) > 0

\* the lowest and the highest score of the four specialists
LowestScore(specialists) ==
    CHOOSE x \in {specialists[i].score_0_to_100 : i \in 1..4} :
        \A i \in 1..4 : x <= specialists[i].score_0_to_100
HighestScore(specialists) ==
    CHOOSE x \in {specialists[i].score_0_to_100 : i \in 1..4} :
        \A i \in 1..4 : x >= specialists[i].score_0_to_100

\* C28: the weight table a decision is made under has positive weights only, so
\* their total is positive (the divisor 1.0 kept for a zero total is not used),
\* the rounded weighted mean lies between the lowest and the highest specialist
\* score, and the aggregate score between the lowest minus 4 and the highest
\* plus 4.
C28_MeanWithinScores ==
    Decided =>
        LET sp == last.result.specialists
            weights == StoreWeights(file)
            total == weight_of(weights, sp[1]) + weight_of(weights, sp[2])
                     + weight_of(weights, sp[3]) + weight_of(weights, sp[4])
        IN  /\ \A a \in DOMAIN weights : weights[a] > 0
            /\ total > 0
            /\ LowestScore(sp) <= RoundedMean(sp, weights)
            /\ RoundedMean(sp, weights) <= HighestScore(sp)
            /\ LowestScore(sp) - 4 <= last.result.aggregate_score_0_to_100
            /\ last.result.aggregate_score_0_to_100 <= HighestScore(sp) + 4

\* C28 witness: a decision under learned weights that differ from each other,
\* whose weighted mean is not the plain mean of the four scores, and which is
\* shifted
C28_UnevenWeights ==
    /\ Decided
    /\ \E a, b \in DOMAIN StoreWeights(file) : StoreWeights(file)[a] < StoreWeights(file)[b]
    /\ RoundedMean(last.result.specialists, StoreWeights(file))
          # RoundedMean(last.result.specialists, default_memory.agent_weights)
    /\ LabelShift(last.result.similar_cases) # 0

\* the was_successful values reported on the stored cases that the entries of a
\* list of similar cases name, whether or not the user had quit
ReportedOutcomes(similar) ==
    [i \in 1..Len(similar) |->
        [was_successful |->
            IF CasesFound[PlaceOf(similar[i])].feedback = None THEN None
            ELSE Some(CasesFound[PlaceOf(similar[i])].feedback[1].was_successful)]]

\* C29: a was_successful label reported with did_user_quit = false counts in the
\* success rate of later decisions exactly as one reported with did_user_quit =
\* true: each similar case carries the outcome reported on it, whatever
\* did_user_quit was, and the shift of the decision is the one these outcomes
\* call for.
C29_LabelCountsWithoutQuit ==
    Decided =>
        /\ \A i \in 1..Len(last.result.similar_cases) :
              /\ PlaceOf(last.result.similar_cases[i]) > 0
              /\ last.result.similar_cases[i].was_successful
                    = ReportedOutcomes(last.result.similar_cases)[i].was_successful
        /\ last.result.aggregate_score_0_to_100 =
              Max(0, Min(100, RoundedMean(last.result.specialists, StoreWeights(file))
                              + LabelShift(ReportedOutcomes(last.result.similar_cases))))

\* C29 witness: a decision shifted by +4 on the strength of reports that were all
\* made with did_user_quit = false, on a store whose weights never moved
C29_ShiftWithoutAnyQuit ==
    /\ Decided
    /\ ~Learned(file)
    /\ \A i \in 1..Len(CasesFound) :
          CasesFound[i].feedback # None => ~CasesFound[i].feedback[1].did_user_quit
    /\ LabelShift(last.result.similar_cases) = 4
    /\ last.result.aggregate_score_0_to_100 =
          RoundedMean(last.result.specialists, default_memory.agent_weights) + 4

\* thread p completes the save of a memory it built on a truncated store file:
\* the file held cases before the truncation, thread p loaded the default store
\* in their place, and none of them is in the file after its save
WipesStore(p) ==
    /\ pc[p] = "writing"
    /\ pc'[p] = "idle"
    /\ req[p].seen = Partial
    /\ req[p].hidden.kind = "json"
    /\ StoreIds(req[p].hidden) # {}
    /\ req[p].loaded = default_memory
    /\ file' = save_swarm_memory(mem[p])
    /\ StoreIds(req[p].hidden) \cap StoreIds(file') = {}

\* C30: a call never loads a partially written store: while one call is writing
\* the store file (truncate, then write), no concurrent call loads the truncated
\* content, falls back to the default store and then saves it, replacing the
\* persisted cases and learned weights with the defaults plus its own update.
C30_NoLoadOfTruncatedStore ==
    [][\A p \in Procs : ~WipesStore(p)]_vars

====
